---- MODULE Spec2Model ----
(***************************************************************************)
(* SafeTrail backend: the emergency escalation engine                      *)
(* (backend/emergency_protocol.py), the per-user agent                     *)
(* (backend/agentic_ai.py) and the conversational interface                *)
(* (backend/conversational_interface.py), as state machines.               *)
(*                                                                         *)
(* The event loop is asyncio's: a coroutine runs without interruption up   *)
(* to an await that really suspends.  In the escalation engine only        *)
(* asyncio.sleep(300) suspends (the database and SMS clients are called    *)
(* synchronously), so activate_emergency_protocol and resolve_emergency    *)
(* are single steps and the delayed escalation is a task of its own.  In   *)
(* the agent the two generate_content_async calls suspend, so a request    *)
(* is up to three steps.                                                   *)
(***************************************************************************)
EXTENDS Integers, Sequences, FiniteSets, TLC

VARIABLES
    now,          \* event-loop clock, seconds
    twilio,       \* EmergencyProtocol.twilio_client is configured
    unreachable,  \* phone numbers the SMS provider fails to deliver to
    tasks,        \* tasks made by asyncio.create_task(escalate_to_authorities(..))
    out,          \* what the engine emitted, in order: SMS attempts and console lines
    ret,          \* how the engine calls made so far ended
    agents,       \* ConversationalInterface.active_agents: user -> AgenticAI object
    reqs,         \* the conversational requests, in arrival order
    returned,     \* the request that returned last, with what it returned
    monitors,     \* the autonomous_monitoring tasks made so far, in order of creation
    websocket_connections,  \* ConversationalInterface.websocket_connections: its keys
    active_agents,  \* main.active_agents: user -> the SafetyAgent of the journey
    sockets,      \* main.websocket_connections: the users with a /ws socket
    journeys,     \* the SafetyAgent objects made by start_journey, each with its monitor_journey task
    handlers,     \* the websocket endpoint tasks, in order of acceptance
    probe         \* one call of a function of the program: its arguments and its result

engineVars == <<now, twilio, unreachable, tasks, out, ret>>

monitorVars == <<monitors, websocket_connections>>

socketVars == <<active_agents, sockets, journeys, handlers>>

agentVars == <<agents, reqs, returned, monitors, websocket_connections, active_agents,
               sockets, journeys, handlers, probe>>

vars == <<now, twilio, unreachable, tasks, out, ret, agents, reqs, returned, monitors,
          websocket_connections, active_agents, sockets, journeys, handlers, probe>>

----------------------------------------------------------------------------
(* Bounds of the model *)

MaxCalls == 3          \* calls of activate_emergency_protocol and resolve_emergency
MaxRequests == 2       \* conversational requests
MaxTurns == 12         \* turns of one user, for the conversation window
MaxOverlap == 2        \* of which in flight at once
TimeStep == 150        \* granularity of the clock
MaxTime == 600         \* the clock stops here
MaxChecks == 2         \* rounds of one autonomous monitor
MaxActions == 3        \* actions in one batch of the dispatcher
MaxTokens == 3         \* tokens of a text the generation capability returns
MaxWords == 2          \* words of a message given to the classifier
MaxTraffic == 3        \* safety alerts of a traffic reading
MaxNews == 2           \* safety alerts of a news reading
MaxMonitors == 2       \* monitoring tasks made by connect_websocket

(* Program constants *)

EscalationDelay == 300
context_window == 10

Users == {"u1", "u2"}

(* The EmergencyAlert bodies posted to /api/emergency/trigger. *)
Alerts ==
    { [user |-> "u1", loc |-> "locA", reason |-> "manual"],
      [user |-> "u1", loc |-> "locB", reason |-> "check_in_timeout"],
      [user |-> "u2", loc |-> "locA", reason |-> "manual"] }

----------------------------------------------------------------------------
(* The contact directory: Database.get_emergency_contacts returns the     *)
(* profile's emergency_contacts column.  An entry is a mapping with name  *)
(* and phone, or (the column is free-form JSON) something that is no      *)
(* mapping, on which contact.get raises.                                  *)

Contact(name, phone) == [dict |-> TRUE, name |-> name, phone |-> phone]

NotAMapping(s) == [dict |-> FALSE, name |-> s, phone |-> s]

directory ==
    [u \in Users |->
        IF u = "u1" THEN <<Contact("Friend", "p1"), Contact("Sibling", "p2")>>
        ELSE <<Contact("Parent", "p3"), NotAMapping("contact1"), Contact("Aunt", "p4")>>]

UnreachableChoices == {{}, {"p1", "p3"}}

get_emergency_contacts(u) == directory[u]

----------------------------------------------------------------------------
(* Emitted events *)

Sms(u, kind, phone, ok) ==
    [type |-> "sms", user |-> u, kind |-> kind, to |-> phone, ok |-> ok,
     task |-> 0, reason |-> "-", loc |-> "-", time |-> now]

Line(type, u, t, reason, loc) ==
    [type |-> type, user |-> u, kind |-> "-", to |-> "-", ok |-> TRUE,
     task |-> t, reason |-> reason, loc |-> loc, time |-> now]

(* A call's effect: the events it emitted and whether it raised. *)
Done(evs) == [out |-> evs, exc |-> FALSE]

Raised(evs) == [out |-> evs, exc |-> TRUE]

(* try: body / except Exception: print(..) *)
TryExcept(r) == [out |-> r.out, exc |-> FALSE]

(* send_sms: with a configured client the provider call may raise, and    *)
(* the exception is caught in place; without one the text is printed.     *)
send_sms_body(u, kind, phone) ==
    IF twilio
    THEN IF phone \in unreachable THEN Raised(<<Sms(u, kind, phone, FALSE)>>)
                  ELSE Done(<<Sms(u, kind, phone, TRUE)>>)
    ELSE Done(<<Sms(u, kind, phone, TRUE)>>)

send_sms_uncaught(u, kind, phone) == send_sms_body(u, kind, phone)

send_sms(u, kind, phone) == TryExcept(send_sms_body(u, kind, phone))

(* for contact in contacts: await self.send_sms(contact.get('phone'), message) *)
RECURSIVE send_loop(_, _, _, _)
send_loop(contacts, i, u, kind) ==
    IF i > Len(contacts) THEN Done(<<>>)
    ELSE IF ~contacts[i].dict THEN Raised(<<>>)
    ELSE LET s == send_sms(u, kind, contacts[i].phone)
         IN  IF s.exc THEN s
             ELSE LET rest == send_loop(contacts, i + 1, u, kind)
                  IN  [out |-> s.out \o rest.out, exc |-> rest.exc]

notify_emergency_contacts_unguarded(u, loc, reason) ==
    send_loop(get_emergency_contacts(u), 1, u, "alert")

notify_emergency_contacts(u, loc, reason) ==
    TryExcept(send_loop(get_emergency_contacts(u), 1, u, "alert"))

send_emergency_update_unguarded(u) ==
    send_loop(get_emergency_contacts(u), 1, u, "resolved")

send_emergency_update(u) ==
    TryExcept(send_loop(get_emergency_contacts(u), 1, u, "resolved"))

(* The three measures in the order of their awaits. Each one prints its  *)
(* line; failing: the measures whose call raises (the print on a closed   *)
(* or non-blocking stdout, or the integration the comments call for).     *)
MeasureNames == <<"tracking", "alarm", "nearby">>

measure(m, u, loc, failing) ==
    IF m \in failing THEN Raised(<<>>)
    ELSE Done(<<Line(m, u, 0, "-", IF m = "nearby" THEN loc ELSE "-")>>)

(* await a; await b; await c: the first raise leaves the sequence. *)
RECURSIVE measures_from(_, _, _, _)
measures_from(i, u, loc, failing) ==
    IF i > Len(MeasureNames) THEN Done(<<>>)
    ELSE LET r == measure(MeasureNames[i], u, loc, failing)
             rest == measures_from(i + 1, u, loc, failing)
         IN  IF r.exc THEN r
             ELSE [out |-> r.out \o rest.out, exc |-> rest.exc]

(* try: the three awaits / except Exception: print(..) *)
safety_measures(u, loc, failing) == TryExcept(measures_from(1, u, loc, failing))

activate_safety_measures(u, loc) == safety_measures(u, loc, {})

disable_emergency_measures(u) == Done(<<Line("disabled", u, 0, "-", "-")>>)

----------------------------------------------------------------------------
(* The delayed tasks *)

Pending(i) == i \in 1..Len(tasks) /\ ~tasks[i].fired

DueTask(i) == Pending(i) /\ now >= tasks[i].due

(* after: how many events the engine had emitted when the task was made. *)
NewTask(u, loc, reason, emitted) ==
    [user |-> u, loc |-> loc, reason |-> reason, due |-> now + EscalationDelay,
     fired |-> FALSE, after |-> emitted]

(* asyncio.create_task(self.escalate_to_authorities(user_id, location, reason)) *)
create_task(u, loc, reason, emitted) == Append(tasks, NewTask(u, loc, reason, emitted))

----------------------------------------------------------------------------
(* Operations of the engine *)

(* failing: the supplementary measures that raise during this call. *)
activation(u, loc, reason, failing) ==
    /\ Len(ret) < MaxCalls
    /\ now + EscalationDelay <= MaxTime
    /\ LET s1 == notify_emergency_contacts(u, loc, reason)
           s3 == safety_measures(u, loc, failing)
           t  == Len(tasks) + 1
       IN  /\ tasks' = IF s1.exc THEN tasks
                       ELSE create_task(u, loc, reason, Len(out) + 1 + Len(s1.out))
           /\ out' = out \o <<Line("activated", u, t, reason, loc)>> \o s1.out
                         \o (IF s1.exc THEN <<>> ELSE s3.out)
           /\ ret' = Append(ret, [op |-> "activate", user |-> u, line |-> Len(out) + 1,
                                  raised |-> s1.exc \/ s3.exc])
    /\ UNCHANGED <<now, twilio, unreachable>>
    /\ UNCHANGED agentVars

(* The measures as they are written only print: none of them raises. *)
activate_emergency_protocol(u, loc, reason) == activation(u, loc, reason, {})

(* escalate_to_authorities after its asyncio.sleep(300) *)
authority_message_without_location(i) ==
    Line("authority", tasks[i].user, i, tasks[i].reason, "-")

authority_message(i) ==
    Line("authority", tasks[i].user, i, tasks[i].reason, tasks[i].loc)

escalate_to_authorities(i) ==
    /\ DueTask(i)
    /\ tasks' = [tasks EXCEPT ![i].fired = TRUE]
    /\ out' = out \o <<Line("escalating", tasks[i].user, i, "-", "-"), authority_message(i)>>
    /\ UNCHANGED <<now, twilio, unreachable, ret>>
    /\ UNCHANGED agentVars

resolve_effect(u) ==
    LET s1 == send_emergency_update(u)
        s2 == disable_emergency_measures(u)
    IN  IF s1.exc THEN Raised(<<Line("resolved", u, 0, "-", "-")>> \o s1.out)
        ELSE [out |-> <<Line("resolved", u, 0, "-", "-")>> \o s1.out \o s2.out,
              exc |-> s2.exc]

resolve_emergency(u) ==
    /\ Len(ret) < MaxCalls
    /\ LET r == resolve_effect(u)
       IN  /\ out' = out \o r.out
           /\ ret' = Append(ret, [op |-> "resolve", user |-> u, line |-> Len(out) + 1,
                                  raised |-> r.exc])
    /\ UNCHANGED <<now, twilio, unreachable, tasks>>
    /\ UNCHANGED agentVars

(* Time passes; a timer that is due runs before the clock moves on. *)
Tick ==
    /\ now + TimeStep <= MaxTime
    /\ \A i \in 1..Len(tasks) : ~DueTask(i)
    /\ now' = now + TimeStep
    /\ UNCHANGED <<twilio, unreachable, tasks, out, ret>>
    /\ UNCHANGED agentVars

----------------------------------------------------------------------------
(* Intent and urgency classification                                       *)
(* (ConversationalInterface._detect_intent, _assess_urgency).  A text is   *)
(* a sequence of characters; a pattern r'a.*b' is the sequence of its      *)
(* literal segments <<a, b>>.                                              *)

intent_patterns ==
    << [intent |-> "route_planning",
        patterns |-> << <<<<"p", "l", "a", "n">>, <<"r", "o", "u", "t", "e">>>>,
                      <<<<"f", "i", "n", "d">>, <<"w", "a", "y">>>>,
                      <<<<"n", "a", "v", "i", "g", "a", "t", "e">>, <<"t", "o">>>>,
                      <<<<"d", "i", "r", "e", "c", "t", "i", "o", "n", "s">>, <<"t", "o">>>>,
                      <<<<"h", "o", "w">>, <<"g", "e", "t">>, <<"t", "o">>>>,
                      <<<<"s", "a", "f", "e", "s", "t">>, <<"r", "o", "u", "t", "e">>>>,
                      <<<<"b", "e", "s", "t">>, <<"p", "a", "t", "h">>>> >>],
       [intent |-> "safety_check",
        patterns |-> << <<<<"a", "m">>, <<"i">>, <<"s", "a", "f", "e">>>>,
                      <<<<"s", "a", "f", "e", "t", "y">>, <<"s", "t", "a", "t", "u", "s">>>>,
                      <<<<"c", "h", "e", "c", "k">>, <<"s", "a", "f", "e", "t", "y">>>>,
                      <<<<"h", "o", "w">>, <<"s", "a", "f", "e">>>>,
                      <<<<"r", "i", "s", "k">>, <<"a", "s", "s", "e", "s", "s", "m", "e", "n", "t">>>>,
                      <<<<"d", "a", "n", "g", "e", "r">>, <<"l", "e", "v", "e", "l">>>> >>],
       [intent |-> "emergency",
        patterns |-> << <<<<"e", "m", "e", "r", "g", "e", "n", "c", "y">>>>,
                      <<<<"h", "e", "l", "p">>, <<"m", "e">>>>,
                      <<<<"d", "a", "n", "g", "e", "r">>>>,
                      <<<<"u", "r", "g", "e", "n", "t">>>>,
                      <<<<"c", "a", "l", "l">>, <<"9", "1", "1">>>>,
                      <<<<"n", "e", "e", "d">>, <<"h", "e", "l", "p">>>>,
                      <<<<"i", "n">>, <<"t", "r", "o", "u", "b", "l", "e">>>> >>],
       [intent |-> "weather_inquiry",
        patterns |-> << <<<<"w", "e", "a", "t", "h", "e", "r">>>>,
                      <<<<"r", "a", "i", "n">>>>,
                      <<<<"s", "t", "o", "r", "m">>>>,
                      <<<<"t", "e", "m", "p", "e", "r", "a", "t", "u", "r", "e">>>>,
                      <<<<"f", "o", "r", "e", "c", "a", "s", "t">>>>,
                      <<<<"c", "l", "i", "m", "a", "t", "e">>, <<"c", "o", "n", "d", "i", "t", "i", "o", "n", "s">>>> >>],
       [intent |-> "traffic_inquiry",
        patterns |-> << <<<<"t", "r", "a", "f", "f", "i", "c">>>>,
                      <<<<"c", "o", "n", "g", "e", "s", "t", "i", "o", "n">>>>,
                      <<<<"r", "o", "a", "d">>, <<"c", "o", "n", "d", "i", "t", "i", "o", "n", "s">>>>,
                      <<<<"a", "c", "c", "i", "d", "e", "n", "t", "s">>>>,
                      <<<<"d", "e", "l", "a", "y", "s">>>>,
                      <<<<"b", "l", "o", "c", "k", "e", "d">>, <<"r", "o", "a", "d", "s">>>> >>],
       [intent |-> "location_sharing",
        patterns |-> << <<<<"m", "y">>, <<"l", "o", "c", "a", "t", "i", "o", "n">>>>,
                      <<<<"w", "h", "e", "r", "e">>, <<"a", "m">>, <<"i">>>>,
                      <<<<"c", "u", "r", "r", "e", "n", "t">>, <<"p", "o", "s", "i", "t", "i", "o", "n">>>>,
                      <<<<"s", "h", "a", "r", "e">>, <<"l", "o", "c", "a", "t", "i", "o", "n">>>>,
                      <<<<"g", "p", "s">>, <<"c", "o", "o", "r", "d", "i", "n", "a", "t", "e", "s">>>> >>],
       [intent |-> "learning_request",
        patterns |-> << <<<<"r", "e", "m", "e", "m", "b", "e", "r">>, <<"t", "h", "i", "s">>>>,
                      <<<<"l", "e", "a", "r", "n">>, <<"f", "r", "o", "m">>>>,
                      <<<<"n", "o", "t", "e">>, <<"t", "h", "a", "t">>>>,
                      <<<<"k", "e", "e", "p">>, <<"i", "n">>, <<"m", "i", "n", "d">>>>,
                      <<<<"p", "r", "e", "f", "e", "r", "e", "n", "c", "e">>>>,
                      <<<<"i">>, <<"p", "r", "e", "f", "e", "r">>>>,
                      <<<<"i">>, <<"l", "i", "k", "e">>>>,
                      <<<<"i">>, <<"u", "s", "u", "a", "l", "l", "y">>>> >>] >>

critical_keywords ==
    << <<"e", "m", "e", "r", "g", "e", "n", "c", "y">>,
       <<"h", "e", "l", "p">>,
       <<"d", "a", "n", "g", "e", "r">>,
       <<"u", "r", "g", "e", "n", "t">>,
       <<"9", "1", "1">>,
       <<"p", "o", "l", "i", "c", "e">>,
       <<"f", "i", "r", "e">>,
       <<"a", "m", "b", "u", "l", "a", "n", "c", "e">> >>

high_keywords ==
    << <<"l", "o", "s", "t">>,
       <<"s", "t", "u", "c", "k">>,
       <<"s", "c", "a", "r", "e", "d">>,
       <<"u", "n", "s", "a", "f", "e">>,
       <<"t", "h", "r", "e", "a", "t">>,
       <<"s", "u", "s", "p", "i", "c", "i", "o", "u", "s">> >>

HelpDanger == <<"h", "e", "l", "p", " ", "I", " ", "a", "m", " ", "i", "n", " ", "d", "a", "n", "g", "e", "r">>

RememberPrefer == <<"r", "e", "m", "e", "m", "b", "e", "r", " ", "t", "h", "a", "t", " ", "I", " ", "p", "r", "e", "f", "e", "r", " ", "q", "u", "i", "e", "t", " ", "s", "t", "r", "e", "e", "t", "s">>

PlanRoute == <<"p", "l", "a", "n", " ", "a", " ", "r", "o", "u", "t", "e", " ", "h", "o", "m", "e">>

Lost == <<"i", " ", "a", "m", " ", "l", "o", "s", "t">>

Hello == <<"h", "e", "l", "l", "o">>

TrainLate == <<"t", "h", "e", " ", "t", "r", "a", "i", "n", " ", "i", "s", " ", "l", "a", "t", "e">>

Messages == {HelpDanger, RememberPrefer, PlanRoute, Lost, Hello, TrainLate}

Upper == << "A", "B", "C", "D", "E", "F", "G", "H", "I", "J", "K", "L", "M", "N", "O", "P", "Q", "R", "S", "T", "U", "V", "W", "X", "Y", "Z" >>

LowerOf == << "a", "b", "c", "d", "e", "f", "g", "h", "i", "j", "k", "l", "m", "n", "o", "p", "q", "r", "s", "t", "u", "v", "w", "x", "y", "z" >>

lower(c) ==
    IF \E i \in 1..Len(Upper) : Upper[i] = c
    THEN LowerOf[CHOOSE i \in 1..Len(Upper) : Upper[i] = c]
    ELSE c

message_lower(message) == [i \in 1..Len(message) |-> lower(message[i])]

OccursAt(seg, text, p) ==
    /\ p >= 1
    /\ p + Len(seg) - 1 <= Len(text)
    /\ \A i \in 1..Len(seg) : text[p + i - 1] = seg[i]

(* keyword in message_lower *)
contains(text, keyword) == \E p \in 1..Len(text) : OccursAt(keyword, text, p)

(* '.' matches any character except a newline *)
NoNewline(text, a, b) == \A i \in a..b : text[i] # "\n"

RECURSIVE MatchAt(_, _, _, _)
MatchAt(segs, k, text, p) ==
    /\ OccursAt(segs[k], text, p)
    /\ \/ k = Len(segs)
       \/ \E q \in (p + Len(segs[k]))..Len(text) :
             /\ NoNewline(text, p + Len(segs[k]), q - 1)
             /\ MatchAt(segs, k + 1, text, q)

re_search(pattern, text) == \E p \in 1..Len(text) : MatchAt(pattern, 1, text, p)

MinOf(S) == CHOOSE x \in S : \A y \in S : x <= y

MaxOf(S) == CHOOSE x \in S : \A y \in S : x >= y

detect_intent_last_match(message) ==
    LET text == message_lower(message)
        hits == {i \in 1..Len(intent_patterns) :
                    \E j \in 1..Len(intent_patterns[i].patterns) :
                        re_search(intent_patterns[i].patterns[j], text)}
    IN  IF hits = {} THEN "general_inquiry" ELSE intent_patterns[MaxOf(hits)].intent

detect_intent(message) ==
    LET text == message_lower(message)
        hits == {i \in 1..Len(intent_patterns) :
                    \E j \in 1..Len(intent_patterns[i].patterns) :
                        re_search(intent_patterns[i].patterns[j], text)}
    IN  IF hits = {} THEN "general_inquiry" ELSE intent_patterns[MinOf(hits)].intent

any_keyword(keywords, text) == \E i \in 1..Len(keywords) : contains(text, keywords[i])

assess_urgency_without_critical(message, intent) ==
    IF any_keyword(high_keywords, message_lower(message)) THEN "high"
    ELSE IF intent \in {"safety_check", "route_planning"} THEN "medium"
    ELSE "low"

assess_urgency(message, intent) ==
    LET text == message_lower(message)
    IN  IF any_keyword(critical_keywords, text) THEN "critical"
        ELSE IF any_keyword(high_keywords, text) THEN "high"
        ELSE IF intent \in {"safety_check", "route_planning"} THEN "medium"
        ELSE "low"

classify_by_state ==
    [m \in Messages |->
        IF reqs = <<>>
        THEN [intent |-> detect_intent(m),
              urgency |-> assess_urgency(m, detect_intent(m))]
        ELSE [intent |-> "general_inquiry", urgency |-> "low"]]

(* The classification of each message of the model, computed once. *)
classify ==
    [m \in Messages |->
        LET intent == detect_intent(m)
        IN  [intent |-> intent, urgency |-> assess_urgency(m, intent)]]

----------------------------------------------------------------------------
(* JSON values, dicts and the output of the generation capability         *)
(*                                                                         *)
(* A JSON value carries its kind; numbers are in hundredths (0.6 is 60).   *)
(* A dict is a function from its keys.  The text the generation returns    *)
(* is a sequence of tokens: prose words, brackets, and inside an object    *)
(* its "key": value pairs.                                                 *)

JV(tag, n, s, items) == [tag |-> tag, n |-> n, s |-> s, items |-> items]

JNull == JV("null", 0, "", <<>>)

JNum(n) == JV("num", n, "", <<>>)

JStr(s) == JV("str", 0, s, <<>>)

JBool(b) == JV("bool", IF b THEN 1 ELSE 0, "", <<>>)

JList(items) == JV("list", 0, "", items)

JMap(items) == JV("map", 0, "", items)

(* Elements of lists: a string, an object, a plan step, an action's result. *)
Item(tag, s, n, r) == [tag |-> tag, s |-> s, n |-> n, r |-> r]

Name(s) == Item("str", s, 0, "")

Obj == Item("obj", "", 0, "")

Names(seq) == JList([i \in 1..Len(seq) |-> Name(seq[i])])

(* Python truth value *)
Truthy(v) ==
    CASE v.tag = "null" -> FALSE
      [] v.tag = "num"  -> v.n # 0
      [] v.tag = "bool" -> v.n = 1
      [] v.tag = "str"  -> v.s # ""
      [] OTHER          -> v.items # <<>>

EmptyDict == [k \in {} |-> JNull]

Put(d, key, v) == [k \in DOMAIN d \cup {key} |-> IF k = key THEN v ELSE d[k]]

Get(d, key, default) == IF key \in DOMAIN d THEN d[key] ELSE default

Word == [t |-> "w", k |-> "", v |-> JNull]

Open == [t |-> "{", k |-> "", v |-> JNull]

Close == [t |-> "}", k |-> "", v |-> JNull]

Pair(key, v) == [t |-> "pair", k |-> key, v |-> v]

(* str.find / str.rfind: 0-based, -1 when absent; text[a:b] *)
py_find(text, t) ==
    IF \E i \in 1..Len(text) : text[i].t = t
    THEN MinOf({i \in 1..Len(text) : text[i].t = t}) - 1
    ELSE -1

py_rfind(text, t) ==
    IF \E i \in 1..Len(text) : text[i].t = t
    THEN MaxOf({i \in 1..Len(text) : text[i].t = t}) - 1
    ELSE -1

py_slice(text, a, b) == SubSeq(text, a + 1, b)

RECURSIVE dict_of(_, _)
dict_of(pairs, n) ==
    IF n = 0 THEN EmptyDict ELSE Put(dict_of(pairs, n - 1), pairs[n].k, pairs[n].v)

(* json.loads of a text that should be one object: ok is FALSE where the  *)
(* source raises json.JSONDecodeError.                                     *)
json_loads(text) ==
    IF /\ Len(text) >= 2
       /\ text[1].t = "{"
       /\ text[Len(text)].t = "}"
       /\ \A i \in 2..(Len(text) - 1) : text[i].t = "pair"
    THEN [ok |-> TRUE, value |-> dict_of(SubSeq(text, 2, Len(text) - 1), Len(text) - 2)]
    ELSE [ok |-> FALSE, value |-> EmptyDict]

parse_ai_response_strict(ai_response) ==
    LET start_idx == py_find(ai_response, "{")
        r == json_loads(py_slice(ai_response, start_idx, py_rfind(ai_response, "}") + 1))
    IN  IF start_idx # -1 /\ r.ok THEN r.value
        ELSE [response |-> JStr("ai_response"), error |-> JStr("str(e)")]

unparsed_response(reasoning, confidence) ==
    [response |-> JStr("ai_response"), reasoning |-> JStr(reasoning),
     confidence |-> JNum(confidence), actions |-> JList(<<>>),
     requires_planning |-> JBool(FALSE), safety_priority |-> JStr("medium")]

parse_ai_response(ai_response) ==
    LET start_idx == py_find(ai_response, "{")
        end_idx == py_rfind(ai_response, "}") + 1
    IN  IF start_idx # -1 /\ end_idx # -1
        THEN LET r == json_loads(py_slice(ai_response, start_idx, end_idx))
             IN  IF r.ok THEN r.value
                 ELSE unparsed_response("Could not parse structured response", 50)
        ELSE unparsed_response("Direct AI response without structured format", 70)

generate_fallback_response ==
    [response |-> JStr("fallback"),
     reasoning |-> JStr("Using fallback response due to AI processing error"),
     confidence |-> JNum(60), actions |-> Names(<<"safety_check">>),
     requires_planning |-> JBool(FALSE), safety_priority |-> JStr("medium"),
     proactive_suggestions |-> Names(<<"share location", "check contacts", "consider route">>)]

error_response ==
    [response |-> JStr("I encountered an error processing your request."),
     error |-> JStr("str(e)"),
     fallback_actions |-> Names(<<"basic_safety_check">>)]

----------------------------------------------------------------------------
(* What the generation capability may return                                *)

Text(tokens) == [raises |-> FALSE, text |-> tokens]

GenerationFails == [raises |-> TRUE, text |-> <<>>]

StructuredReply ==
    <<Word, Open,
      Pair("response", JStr("reply")), Pair("confidence", JNum(90)),
      Pair("actions", Names(<<"weather_api", "traffic_api">>)),
      Pair("requires_planning", JBool(FALSE)), Pair("safety_priority", JStr("high")),
      Close, Word>>

PlanningReply ==
    <<Open,
      Pair("response", JStr("reply")), Pair("confidence", JNum(80)),
      Pair("actions", Names(<<"route_optimizer">>)),
      Pair("requires_planning", JBool(TRUE)), Pair("safety_priority", JStr("medium")),
      Close>>

(* "actions": 5 is valid JSON and no list *)
ActionsNotAList ==
    <<Open, Pair("response", JStr("reply")), Pair("actions", JNum(500)), Close>>

GenOutputs ==
    { GenerationFails,
      Text(<<Word, Word>>),              \* prose, no braces
      Text(<<Open, Word, Close>>),       \* braces around what is no JSON
      Text(<<Close, Word, Open>>),       \* the last '}' before the first '{'
      Text(StructuredReply),
      Text(PlanningReply),
      Text(ActionsNotAList) }

(* The planner's reply: '[' step ... ']' with prose around it. *)
LBracket == [t |-> "[", k |-> "", v |-> JNull]

RBracket == [t |-> "]", k |-> "", v |-> JNull]

StepTok(n, action) == [t |-> "step", k |-> action, v |-> JNum(n)]

PlanOutputs ==
    { GenerationFails,
      Text(<<Word, Word>>),
      Text(<<Word, LBracket, StepTok(1, "check_route"), StepTok(2, "share_location"),
             RBracket, Word>>),
      Text(<<LBracket, Word, RBracket>>) }

----------------------------------------------------------------------------
(* The agent (AgenticAI)                                                   *)

(* instance tells the AgenticAI objects made for one user apart. *)
NewAgent ==
    [instance |-> 1,
     state |-> "idle",
     conversation_history |-> <<>>,
     current_plan |-> <<>>,
     user_patterns |-> [k \in {} |-> <<>>],
     response_effectiveness |-> [k \in {} |-> <<>>],
     contextual_knowledge |-> [k \in {} |-> Name("")]]

available_tools ==
    {"weather_api", "traffic_api", "news_api", "emergency_services",
     "route_optimizer", "risk_predictor", "safety_check", "learn_pattern"}

get_or_create_agent_unchecked(u) ==
    (u :> [NewAgent EXCEPT
             !.instance = IF u \in DOMAIN agents THEN agents[u].instance + 1 ELSE 1])
        @@ agents

(* No await between the membership test and the insertion. *)
get_or_create_agent(u) ==
    IF u \in DOMAIN agents THEN agents ELSE agents @@ (u :> NewAgent)

append_turn_untrimmed(history, turn) == Append(history, turn)

(* self.conversation_history.append(..); keep the last context_window *)
append_turn(history, turn) ==
    LET h == Append(history, turn)
    IN  IF Len(h) > context_window
        THEN SubSeq(h, Len(h) - context_window + 1, Len(h))
        ELSE h

(* _create_fallback_plan *)
create_fallback_plan ==
    <<Item("step", "assess_current_situation", 1, "2 safety considerations"),
      Item("step", "provide_safety_guidance", 2, "2 safety considerations")>>

(* How many '[' are open after the first i pieces of the text. *)
Depth(text, i) ==
    Cardinality({j \in 1..i : text[j].t = "["}) - Cardinality({j \in 1..i : text[j].t = "]"})

RECURSIVE Ordered(_)
Ordered(S) == IF S = {} THEN <<>> ELSE <<MinOf(S)>> \o Ordered(S \ {MinOf(S)})

(* json.loads of the text between the first '[' and the last ']': one     *)
(* array, whose elements are step objects or arrays again; ok is FALSE     *)
(* where the source raises json.JSONDecodeError.                            *)
json_loads_array(text) ==
    IF /\ Len(text) >= 2
       /\ text[1].t = "["
       /\ \A i \in 1..Len(text) : text[i].t \in {"[", "]", "step"}
       /\ \A i \in 1..(Len(text) - 1) : Depth(text, i) >= 1
       /\ Depth(text, Len(text)) = 0
    THEN LET at == Ordered({i \in 2..Len(text) :
                        \/ text[i].t = "step" /\ Depth(text, i) = 1
                        \/ text[i].t = "[" /\ Depth(text, i) = 2})
         IN  [ok |-> TRUE,
              value |-> [n \in 1..Len(at) |->
                            IF text[at[n]].t = "step"
                            THEN Item("step", text[at[n]].k, text[at[n]].v.n, "")
                            ELSE Item("list", "", 0, "")]]
    ELSE [ok |-> FALSE, value |-> <<>>]

create_multi_step_plan_unguarded(p) ==
    IF p.raises THEN [plan |-> <<>>, stored |-> FALSE]
    ELSE LET start_idx == py_find(p.text, "[")
             r == json_loads_array(py_slice(p.text, start_idx, py_rfind(p.text, "]") + 1))
         IN  IF start_idx # -1 /\ r.ok THEN [plan |-> r.value, stored |-> TRUE]
             ELSE [plan |-> <<>>, stored |-> FALSE]

(* _create_multi_step_plan from the await on: the plan it returns and     *)
(* whether it stored it in self.current_plan.                              *)
create_multi_step_plan(p) ==
    IF p.raises THEN [plan |-> create_fallback_plan, stored |-> FALSE]
    ELSE LET start_idx == py_find(p.text, "[")
             end_idx == py_rfind(p.text, "]") + 1
         IN  IF start_idx # -1 /\ end_idx # -1
             THEN LET r == json_loads_array(py_slice(p.text, start_idx, end_idx))
                  IN  IF r.ok THEN [plan |-> r.value, stored |-> TRUE]
                      ELSE [plan |-> create_fallback_plan, stored |-> FALSE]
             ELSE [plan |-> create_fallback_plan, stored |-> FALSE]

(* results[action] = .. *)
set_result(results, action, r) ==
    IF \E i \in 1..Len(results) : results[i].s = action
    THEN [i \in 1..Len(results) |->
            IF results[i].s = action THEN Item("result", action, 0, r) ELSE results[i]]
    ELSE Append(results, Item("result", action, 0, r))

(* Methods of AgenticAI whose name is _execute_<suffix>: what           *)
(* hasattr(self, f'_execute_{action}') finds for a name not in the tools.  *)
ExecuteMethods == {"planned_actions"}

(* The registered providers catch their own exceptions and return          *)
(* {'error': ..}: none raises.                                             *)
NoFailures == {}

dispatch_action_uncaught(action, failing) ==
    IF action \in available_tools
    THEN [r |-> IF action \in failing THEN "error executing" ELSE "tool result",
          exc |-> action \in failing]
    ELSE [r |-> "not implemented", exc |-> FALSE]

(* The try of one action: the provider of a registered name is awaited;   *)
(* for another name an _execute_ method, if there is one, is called with  *)
(* no argument (_execute_planned_actions needs one, so the call raises);  *)
(* what is raised becomes the action's result.                             *)
dispatch_action(action, failing) ==
    IF action \in available_tools
    THEN [r |-> IF action \in failing THEN "error executing" ELSE "tool result",
          exc |-> FALSE]
    ELSE IF action \in ExecuteMethods
    THEN [r |-> "error executing", exc |-> FALSE]
    ELSE [r |-> "not implemented", exc |-> FALSE]

(* for action in actions: an action that is no string key (unhashable)    *)
(* raises in the lookup and again in the handler that reports it.          *)
RECURSIVE execute_loop(_, _, _, _)
execute_loop(items, i, results, failing) ==
    IF i > Len(items) THEN [results |-> results, exc |-> FALSE]
    ELSE IF items[i].tag # "str" THEN [results |-> results, exc |-> TRUE]
    ELSE LET x == dispatch_action(items[i].s, failing)
         IN  IF x.exc THEN [results |-> results, exc |-> TRUE]
             ELSE execute_loop(items, i + 1, set_result(results, items[i].s, x.r), failing)

(* _execute_planned_actions(response['actions']), reached when the value  *)
(* is truthy: a number or a boolean is not iterable; the characters of a   *)
(* string are actions none of which is implemented.                        *)
execute_planned_actions(actions) ==
    CASE actions.tag \in {"list", "map"} -> execute_loop(actions.items, 1, <<>>, NoFailures)
      [] actions.tag = "str" ->
            [results |-> <<Item("result", "each character", 0, "not implemented")>>,
             exc |-> FALSE]
      [] OTHER -> [results |-> <<>>, exc |-> TRUE]

Hashable(v) == v.tag \notin {"list", "map"}

Iterable(v) == v.tag \in {"list", "map", "str"}

append_to(table, key, v) ==
    [k \in DOMAIN table \cup {key} |->
        IF k = key THEN Append(IF key \in DOMAIN table THEN table[key] ELSE <<>>, v)
        ELSE table[k]]

(* _update_user_patterns: one entry under the hour of the day, one under   *)
(* the rounded position when the context has a current_location.           *)
update_user_patterns(patterns, req) ==
    LET entry == [input |-> req.user_input, timestamp |-> now]
        p1 == append_to(patterns, "time_patterns", entry)
    IN  IF req.context = "dict_loc" THEN append_to(p1, "location_patterns", entry) ELSE p1

LastPoint(points) ==
    IF points.tag = "str" THEN Name("last character") ELSE points.items[Len(points.items)]

(* _learn_from_interaction: every failure inside is caught and logged,    *)
(* what was written before it stays.                                       *)
learn_from_interaction(agent, id, req, response) ==
    LET learning_points == Get(response, "learning_points", JList(<<>>))
        a1 == [agent EXCEPT !.user_patterns = update_user_patterns(@, req)]
        confidence == Get(response, "confidence", JNum(50))
        response_type == Get(response, "safety_priority", JStr("medium"))
        a2 == [a1 EXCEPT !.response_effectiveness = append_to(@, response_type, confidence)]
        stamp == [kind |-> "interaction", at |-> id, task |-> 0]
        a3 == [a2 EXCEPT !.contextual_knowledge =
                    [k \in DOMAIN @ \cup {stamp} |->
                        IF k = stamp THEN LastPoint(learning_points) ELSE @[k]]]
    IN  IF ~Hashable(response_type) THEN a1
        ELSE IF ~Truthy(learning_points) THEN a2
        ELSE IF ~Iterable(learning_points) THEN a2
        ELSE a3

(* The body of process_natural_language_request after the response has     *)
(* been generated: tool dispatch, then learning.                           *)
after_generation(agent, id, req, response) ==
    LET actions == Get(response, "actions", JNull)
        x == IF Truthy(actions) THEN execute_planned_actions(actions)
             ELSE [results |-> <<>>, exc |-> FALSE]
        r1 == IF Truthy(actions) THEN Put(response, "action_results", JMap(x.results))
              ELSE response
    IN  IF x.exc THEN [agent |-> agent, response |-> response, exc |-> TRUE]
        ELSE [agent |-> learn_from_interaction(agent, id, req, r1),
              response |-> r1, exc |-> FALSE]

(* except Exception as e: return {.., 'error': str(e), 'fallback_actions': [..]} *)
request_outcome_unhandled(body) ==
    [agent |-> [body.agent EXCEPT !.state = "idle"],
     response |-> body.response, escaped |-> body.exc, raised |-> body.exc]

(* try / except / finally of process_natural_language_request *)
request_outcome(body) ==
    [agent |-> [body.agent EXCEPT !.state = "idle"],
     response |-> IF body.exc THEN error_response ELSE body.response,
     escaped |-> body.exc,
     raised |-> FALSE]

----------------------------------------------------------------------------
(* The conversational interface                                            *)

(* The methods EmergencyProtocol defines; calling another raises            *)
(* AttributeError.                                                          *)
EmergencyProtocolMethods ==
    {"activate_emergency_protocol", "notify_emergency_contacts", "escalate_to_authorities",
     "activate_safety_measures", "send_sms", "enable_continuous_tracking",
     "activate_phone_alarm", "alert_nearby_users", "send_emergency_update",
     "resolve_emergency", "disable_emergency_measures"}

handle_special_cases_uncritical(intent, urgency, response) ==
    IF urgency = "high"
    THEN Put(Put(response, "enhanced_monitoring", JBool(TRUE)),
             "safety_escalation", Names(<<"monitoring", "contacts in 10 minutes", "tracking">>))
    ELSE IF intent = "route_planning"
    THEN Put(Put(response, "route_guidance", JBool(TRUE)),
             "additional_info", Names(<<"assessment", "alternatives", "monitoring">>))
    ELSE IF intent = "learning_request"
    THEN Put(Put(response, "learning_confirmed", JBool(TRUE)),
             "learning_acknowledgment", JStr("noted"))
    ELSE response

(* _handle_special_cases; the trigger it attempts for a critical message   *)
(* is a call of self.emergency.trigger_emergency_alert, inside try/except. *)
handle_special_cases(intent, urgency, response) ==
    IF urgency = "critical"
    THEN Put(Put(response, "emergency_activated", JBool(TRUE)),
             "immediate_actions", Names(<<"services notified", "location shared", "stay calm">>))
    ELSE handle_special_cases_uncritical(intent, urgency, response)

(* self.emergency.trigger_emergency_alert(..): EmergencyProtocol defines *)
(* no such method, the attribute lookup raises AttributeError.            *)
trigger_emergency_alert(u) ==
    IF "trigger_emergency_alert" \in EmergencyProtocolMethods THEN Done(<<>>) ELSE Raised(<<>>)

(* What _handle_special_cases makes the engine emit, and whether it made *)
(* the call: for a critical message it calls trigger_emergency_alert      *)
(* inside try/except, after the flags were put on the response.           *)
special_cases_effect(u, urgency) ==
    IF urgency = "critical"
    THEN [out |-> TryExcept(trigger_emergency_alert(u)).out, attempted |-> TRUE]
    ELSE [out |-> <<>>, attempted |-> FALSE]

conversation_fallback ==
    [response |-> JStr("I'm having trouble processing your request right now."),
     error |-> JStr("str(e)"),
     fallback_mode |-> JBool(TRUE)]

(* _enhance_context(context or {}): a dict gains the mock profile and a    *)
(* current_location; on anything else context.get raises inside, and the   *)
(* value comes back as it was.                                             *)
enhance_context(context) == IF context = "list" THEN "list" ELSE "dict_loc"

(* What process_natural_language_request gave its caller. *)
AgentResult(o) ==
    [called |-> TRUE, escaped |-> o.escaped, raised |-> o.raised, response |-> o.response]

NotCalled == [called |-> FALSE, escaped |-> FALSE, raised |-> FALSE, response |-> EmptyDict]

(* What the entry point gives back: process_conversation puts the special *)
(* cases on the agent's response, and answers with its fallback when the   *)
(* agent raised; an endpoint calling the agent directly passes on what it  *)
(* got.                                                                    *)
conversation_outcome(r, req, o) ==
    IF req.via = "conversation"
    THEN [req |-> r, agent |-> AgentResult(o),
          response |-> IF o.raised THEN conversation_fallback
                       ELSE handle_special_cases(req.intent, req.urgency, o.response),
          raised |-> FALSE]
    ELSE [req |-> r, agent |-> AgentResult(o), response |-> o.response, raised |-> o.raised]

(* The calls process_conversation makes on the engine once the agent has *)
(* answered: those of _handle_special_cases, reached when the agent did  *)
(* not raise.                                                              *)
conversation_effect(req, o) ==
    IF req.via = "conversation" /\ ~o.raised
    THEN special_cases_effect(req.user, req.urgency)
    ELSE [out |-> <<>>, attempted |-> FALSE]

NoReturn == [req |-> 0, agent |-> NotCalled, response |-> EmptyDict, raised |-> FALSE]

InFlight(r) == r \in 1..Len(reqs) /\ reqs[r].pc \in {"generating", "planning"}

Turn(id, message, context) ==
    [req |-> id, timestamp |-> now, user_input |-> message, context |-> context]

NewRequest(u, via, message, context, pc) ==
    [user |-> u, via |-> via, user_input |-> message, context |-> context, pc |-> pc,
     agent |-> get_or_create_agent(u)[u].instance,
     reply |-> <<>>,
     triggered |-> FALSE,
     states |-> IF via = "conversation" /\ context = "list" THEN <<>>
                ELSE IF pc = "returned" THEN <<"responding", "idle">>
                ELSE <<"responding">>,
     intent |-> IF via = "conversation" THEN classify[message].intent ELSE "-",
     urgency |-> IF via = "conversation" THEN classify[message].urgency ELSE "-",
     parsed |-> EmptyDict]

(* A request arrives: process_conversation (via = "conversation") or       *)
(* process_natural_language_request called by an endpoint (via =           *)
(* "direct"), up to the await of the generation call.                      *)
process_request(u, via, message, context) ==
    LET registry == get_or_create_agent(u)
        id == Len(reqs) + 1
        ctx == IF via = "conversation" THEN enhance_context(context) ELSE context
        agent == [registry[u] EXCEPT
                    !.state = "responding",
                    !.conversation_history = append_turn(@, Turn(id, message, ctx))]
        failed == request_outcome([agent |-> agent, response |-> EmptyDict, exc |-> TRUE])
        answered == NewRequest(u, via, message, ctx, "returned")
        effect == conversation_effect(answered, failed)
    IN  /\ UNCHANGED <<now, twilio, unreachable, tasks, ret>>
        /\ IF via = "conversation" /\ ctx = "list"
           THEN \* enhanced_context.update raises: the except branch answers
                /\ agents' = registry
                /\ reqs' = Append(reqs, answered)
                /\ returned' = [req |-> id, agent |-> NotCalled,
                                response |-> conversation_fallback, raised |-> FALSE]
                /\ out' = out
           ELSE IF ctx = "none"
           THEN \* _build_contextual_prompt: context.get raises
                /\ agents' = [registry EXCEPT ![u] = failed.agent]
                /\ reqs' = Append(reqs, [answered EXCEPT !.triggered = effect.attempted])
                /\ returned' = conversation_outcome(id, answered, failed)
                /\ out' = out \o effect.out
           ELSE /\ agents' = [registry EXCEPT ![u] = agent]
                /\ reqs' = Append(reqs, NewRequest(u, via, message, ctx, "generating"))
                /\ UNCHANGED returned
                /\ out' = out

(* The request made by an HTTP endpoint: nothing of the sockets moves. *)
Request(u, via, message, context) ==
    /\ process_request(u, via, message, context)
    /\ UNCHANGED <<monitorVars, socketVars, probe>>

(* reply: what the generation call of the request gave, kept with it. *)
(* states: the values the request's processing assigned to agent.state, *)
(* in order: LEARNING on entering _learn_from_interaction, which a raise *)
(* of the dispatcher skips, and IDLE in the finally.                      *)
Finish(r, agent, response, reply) ==
    LET body == after_generation(agent, r, reqs[r], response)
        o == request_outcome(body)
        effect == conversation_effect(reqs[r], o)
    IN  /\ agents' = [agents EXCEPT ![reqs[r].user] = o.agent]
        /\ reqs' = [reqs EXCEPT ![r].pc = "returned", ![r].parsed = EmptyDict,
                                ![r].reply = reply,
                                ![r].triggered = effect.attempted,
                                ![r].states = @ \o (IF body.exc THEN <<"idle">>
                                                    ELSE <<"learning", "idle">>)]
        /\ returned' = conversation_outcome(r, reqs[r], o)
        /\ out' = out \o effect.out

(* The generation call of _generate_intelligent_response returns. *)
GenerationReturns(r, g) ==
    /\ r \in 1..Len(reqs)
    /\ reqs[r].pc = "generating"
    /\ UNCHANGED <<now, twilio, unreachable, tasks, ret>>
    /\ UNCHANGED <<monitorVars, socketVars, probe>>
    /\ LET agent == agents[reqs[r].user]
           parsed == parse_ai_response(g.text)
       IN  IF g.raises THEN Finish(r, agent, generate_fallback_response, <<g>>)
           ELSE IF Truthy(Get(parsed, "requires_planning", JNull))
           THEN /\ agents' = [agents EXCEPT ![reqs[r].user].state = "planning"]
                /\ reqs' = [reqs EXCEPT ![r].pc = "planning", ![r].parsed = parsed,
                                        ![r].reply = <<g>>,
                                        ![r].states = Append(@, "planning")]
                /\ UNCHANGED <<returned, out>>
           ELSE Finish(r, agent, parsed, <<g>>)

(* The generation call of _create_multi_step_plan returns. *)
PlanningReturns(r, p) ==
    /\ r \in 1..Len(reqs)
    /\ reqs[r].pc = "planning"
    /\ UNCHANGED <<now, twilio, unreachable, tasks, ret>>
    /\ UNCHANGED <<monitorVars, socketVars, probe>>
    /\ LET made == create_multi_step_plan(p)
           agent == [agents[reqs[r].user] EXCEPT
                        !.current_plan = IF made.stored THEN made.plan ELSE @]
       IN  Finish(r, agent, Put(reqs[r].parsed, "plan", JList(made.plan)), reqs[r].reply)

----------------------------------------------------------------------------
(* The autonomous monitor (AgenticAI.autonomous_monitoring), a task made   *)
(* by connect_websocket.  Its data sources do not suspend; it suspends in  *)
(* asyncio.sleep(60) at the end of each round.                             *)

(* wait: the seconds of the asyncio.sleep the task is in; error: an      *)
(* exception was raised inside the last cycle.                             *)
NewMonitor(u) ==
    [user |-> u, pc |-> "created", checks |-> 0, session_ended |-> FALSE, risk |-> "-",
     wait |-> 0, error |-> FALSE]

(* What the mock data sources may give: weather safety_impact, traffic    *)
(* safety_alerts; the news always carries two alerts.                     *)
WeatherImpacts == {"low", "high"}

TrafficAlerts == {0, 3}

news_safety_alerts == <<"Construction work on Main Street", "Weather advisory for evening hours">>

(* The readings themselves: weather is the safety_impact of the weather   *)
(* reading, traffic its safety_alerts count, news the list of             *)
(* safety_alerts of the news reading.                                     *)
risk_factors_traffic_two(weather, traffic, news) ==
    (IF weather = "high" THEN <<"adverse_weather">> ELSE <<>>)
    \o (IF traffic >= 2 THEN <<"traffic_incidents">> ELSE <<>>)
    \o (IF Len(news) > 1 THEN <<"local_incidents">> ELSE <<>>)

risk_factors(weather, traffic, news) ==
    (IF weather = "high" THEN <<"adverse_weather">> ELSE <<>>)
    \o (IF traffic > 2 THEN <<"traffic_incidents">> ELSE <<>>)
    \o (IF Len(news) > 1 THEN <<"local_incidents">> ELSE <<>>)

safety_status_high_from_two(factors) ==
    [risk_factors |-> factors,
     overall_risk |-> IF Len(factors) >= 2 THEN "high"
                      ELSE IF Len(factors) > 0 THEN "medium" ELSE "low",
     requires_action |-> Len(factors) > 1]

safety_status(factors) ==
    [risk_factors |-> factors,
     overall_risk |-> IF Len(factors) > 2 THEN "high"
                      ELSE IF Len(factors) > 0 THEN "medium" ELSE "low",
     requires_action |-> Len(factors) > 1]

autonomous_safety_assessment(weather, traffic, news) ==
    safety_status(risk_factors(weather, traffic, news))

(* self.emergency.send_safety_alert(..): EmergencyProtocol defines no    *)
(* such method, the attribute lookup raises AttributeError.               *)
send_safety_alert(u) ==
    IF "send_safety_alert" \in EmergencyProtocolMethods THEN Done(<<>>) ELSE Raised(<<>>)

(* _take_proactive_action: what it makes the engine emit.  On high risk  *)
(* it calls send_safety_alert; on medium it does nothing; whatever is     *)
(* raised inside is caught and logged.                                    *)
proactive_action_body(u, status) ==
    IF status.overall_risk = "high" THEN send_safety_alert(u) ELSE Done(<<>>)

take_proactive_action(u, status) == TryExcept(proactive_action_body(u, status))

(* The key "monitoring_<datetime.now().isoformat()>": the reading of the  *)
(* clock differs from one cycle to the next, of one task or of two.        *)
monitoring_stamp(m, round) == [kind |-> "monitoring", at |-> round, task |-> m]

monitoring_entry(status) ==
    Item("monitoring", status.overall_risk, Len(status.risk_factors), "")

learn_from_monitoring_one_key(agent, m, round, status) ==
    [agent EXCEPT !.contextual_knowledge =
        [k \in {monitoring_stamp(0, 0)} |-> monitoring_entry(status)]]

(* _learn_from_monitoring: contextual_knowledge["monitoring_<time>"] = .. *)
learn_from_monitoring(agent, m, round, status) ==
    LET stamp == monitoring_stamp(m, round)
    IN  [agent EXCEPT !.contextual_knowledge =
            [k \in DOMAIN @ \cup {stamp} |->
                IF k = stamp THEN monitoring_entry(status) ELSE @[k]]]

(* One pass of the loop body, up to the sleep: the assessment, the      *)
(* proactive action when it is required, the learning.  error: something  *)
(* was raised inside the pass; escaped: it reached the except clause of   *)
(* the loop, whose sleep is 30 seconds instead of 60.                     *)
monitoring_round(u, agent, m, round, weather, traffic) ==
    LET status == autonomous_safety_assessment(weather, traffic, news_safety_alerts)
        acted == IF status.requires_action
                 THEN take_proactive_action(u, status) ELSE Done(<<>>)
    IN  [agent |-> learn_from_monitoring(agent, m, round, status),
         status |-> status, out |-> acted.out,
         error |-> status.requires_action /\ proactive_action_body(u, status).exc,
         escaped |-> acted.exc,
         wait |-> IF acted.exc THEN 30 ELSE 60]

(* connect_websocket: the connection is registered, the agent is looked  *)
(* up or made, and a monitoring task is created for it.                   *)
connect_websocket(u) ==
    /\ Len(monitors) < MaxMonitors
    /\ websocket_connections' = websocket_connections \cup {u}
    /\ agents' = get_or_create_agent(u)
    /\ monitors' = Append(monitors, NewMonitor(u))

(* disconnect_websocket: the connection is forgotten; the task made by   *)
(* connect_websocket is not kept anywhere and goes on.                    *)
disconnect_websocket(u) ==
    websocket_connections' = websocket_connections \ {u}

(* The task runs: from its start, or from the end of a sleep, to the next *)
(* sleep or to the end of the loop.                                        *)
autonomous_monitoring(m, weather, traffic) ==
    /\ m \in 1..Len(monitors)
    /\ monitors[m].pc \in {"created", "sleeping"}
    /\ LET u == monitors[m].user
           agent == IF monitors[m].pc = "created"
                    THEN [agents[u] EXCEPT !.state = "monitoring"]
                    ELSE agents[u]
           round == monitoring_round(u, agent, m, monitors[m].checks + 1, weather, traffic)
       IN  IF agent.state = "monitoring"
           THEN /\ monitors[m].checks < MaxChecks
                /\ agents' = [agents EXCEPT ![u] = round.agent]
                /\ out' = out \o round.out
                /\ monitors' = [monitors EXCEPT ![m].pc = "sleeping",
                                                ![m].checks = @ + 1,
                                                ![m].risk = round.status.overall_risk,
                                                ![m].wait = round.wait,
                                                ![m].error = round.error]
           ELSE /\ agents' = agents
                /\ out' = out
                /\ monitors' = [monitors EXCEPT ![m].pc = "exited"]
    /\ UNCHANGED <<reqs, returned, websocket_connections, socketVars, probe>>
    /\ UNCHANGED <<now, twilio, unreachable, tasks, ret>>

(* end_conversation_session: the connection is forgotten and the agent's *)
(* state is set to IDLE, which the loop reads when it next wakes.         *)
end_conversation_session(u) ==
    /\ \E m \in 1..Len(monitors) : monitors[m].user = u /\ ~monitors[m].session_ended
    /\ disconnect_websocket(u)
    /\ agents' = IF u \in DOMAIN agents THEN [agents EXCEPT ![u].state = "idle"] ELSE agents
    /\ monitors' = [m \in 1..Len(monitors) |->
                        IF monitors[m].user = u
                        THEN [monitors[m] EXCEPT !.session_ended = TRUE] ELSE monitors[m]]
    /\ UNCHANGED <<reqs, returned, socketVars, probe>>
    /\ UNCHANGED engineVars

----------------------------------------------------------------------------
(* Specifications *)

EngineStart ==
    /\ now = 0
    /\ tasks = <<>>
    /\ out = <<>>
    /\ ret = <<>>

(* A call of one function of the program, apart from the state machines: *)
(* the arguments it is given and, once it has run, what it gave back.     *)
Call(fn, items, failing, reply, message, intent) ==
    [fn |-> fn, items |-> items, failing |-> failing, reply |-> reply,
     message |-> message, intent |-> intent,
     weather |-> "-", traffic |-> 0, news |-> <<>>,
     done |-> FALSE, results |-> <<>>, exc |-> FALSE, plan |-> <<>>,
     response |-> EmptyDict, intent_out |-> "-", urgency_out |-> "-",
     status |-> safety_status(<<>>)]

NoCall == Call("none", <<>>, {}, GenerationFails, <<>>, "-")

AgentStart ==
    /\ agents = [u \in {} |-> NewAgent]
    /\ reqs = <<>>
    /\ returned = NoReturn
    /\ monitors = <<>>
    /\ websocket_connections = {}
    /\ active_agents = <<>>
    /\ sockets = {}
    /\ journeys = <<>>
    /\ handlers = <<>>

(* The engine, with or without an SMS provider configured. *)
Init ==
    /\ EngineStart
    /\ AgentStart
    /\ probe = NoCall
    /\ twilio \in BOOLEAN
    /\ unreachable \in UnreachableChoices
    /\ ~twilio => unreachable = {}

Activate == \E a \in Alerts : activate_emergency_protocol(a.user, a.loc, a.reason)

Escalate == \E i \in 1..MaxCalls : escalate_to_authorities(i)

Resolve == \E u \in Users : resolve_emergency(u)

NextEngine == Activate \/ Escalate \/ Resolve \/ Tick

SpecEngine == Init /\ [][NextEngine]_vars

(* Activations in a process where some of the supplementary measures     *)
(* raise: probe.failing names them, for the whole run.                    *)
InitMeasures ==
    /\ EngineStart
    /\ AgentStart
    /\ twilio \in BOOLEAN
    /\ unreachable \in UnreachableChoices
    /\ ~twilio => unreachable = {}
    /\ probe \in {[NoCall EXCEPT !.fn = "measures", !.failing = f] :
                      f \in SUBSET {MeasureNames[i] : i \in 1..Len(MeasureNames)}}

ActivatesFailing == \E a \in Alerts : activation(a.user, a.loc, a.reason, probe.failing)

SpecMeasures == InitMeasures /\ [][ActivatesFailing]_vars

(* The event loop runs a timer that is due, and time passes. *)
SpecEngineFair ==
    /\ SpecEngine
    /\ WF_vars(Tick)
    /\ \A i \in 1..MaxCalls : WF_vars(escalate_to_authorities(i))

(* Conversational requests on the agents, any interleaving of their steps. *)
InitAgents ==
    /\ EngineStart
    /\ AgentStart
    /\ probe = NoCall
    /\ twilio = FALSE
    /\ unreachable = {}

RequestMenu ==
    { [user |-> "u1", via |-> "direct", message |-> Hello, context |-> "dict"],
      [user |-> "u1", via |-> "direct", message |-> Hello, context |-> "none"],
      [user |-> "u2", via |-> "direct", message |-> Hello, context |-> "dict_loc"],
      [user |-> "u1", via |-> "conversation", message |-> HelpDanger, context |-> "none"],
      [user |-> "u1", via |-> "conversation", message |-> HelpDanger, context |-> "list"],
      [user |-> "u1", via |-> "conversation", message |-> RememberPrefer, context |-> "dict"],
      [user |-> "u1", via |-> "conversation", message |-> RememberPrefer, context |-> "list"] }

Arrives ==
    \E q \in RequestMenu :
        /\ Len(reqs) < MaxRequests
        /\ Request(q.user, q.via, q.message, q.context)

Generated == \E r \in 1..MaxRequests, g \in GenOutputs : GenerationReturns(r, g)

Planned == \E r \in 1..MaxRequests, p \in PlanOutputs : PlanningReturns(r, p)

NextAgents == Arrives \/ Generated \/ Planned

SpecAgents == InitAgents /\ [][NextAgents]_vars

(* One user's turns, many of them, at most MaxOverlap in flight. *)
WindowOutputs == {Text(<<Open, Word, Close>>)}

TurnArrives ==
    /\ Len(reqs) < MaxTurns
    /\ Cardinality({r \in 1..Len(reqs) : InFlight(r)}) < MaxOverlap
    /\ Request("u1", "direct", Hello, "dict")

TurnGenerated == \E r \in 1..MaxTurns, g \in WindowOutputs : GenerationReturns(r, g)

NextWindow == TurnArrives \/ TurnGenerated

SpecWindow == InitAgents /\ [][NextWindow]_vars

(* One user's requests one after the other, with replies that carry a     *)
(* confidence, a safety_priority and learning_points of their own.        *)
LearnReply(confidence, priority, points) ==
    Text(<<Open, Pair("response", JStr("reply")), Pair("confidence", confidence),
           Pair("safety_priority", priority), Pair("learning_points", points), Close>>)

LearnOutputs ==
    { GenerationFails,
      Text(<<Word, Word>>),
      LearnReply(JNum(90), JStr("high"),
                 Names(<<"prefers lit streets", "avoids the park">>)),
      LearnReply(JNum(150), JStr("low"), Names(<<>>)),
      LearnReply(JStr("high"), JStr("low"), Names(<<"walks home at night">>)) }

LearnMenu ==
    { [user |-> "u1", via |-> "conversation", message |-> Hello, context |-> "dict"],
      [user |-> "u1", via |-> "conversation", message |-> HelpDanger, context |-> "dict"],
      [user |-> "u1", via |-> "direct", message |-> Hello, context |-> "dict"] }

LearnArrives ==
    \E q \in LearnMenu :
        /\ Len(reqs) < MaxRequests
        /\ \A r \in 1..Len(reqs) : ~InFlight(r)
        /\ Request(q.user, q.via, q.message, q.context)

LearnGenerated == \E r \in 1..MaxRequests, g \in LearnOutputs : GenerationReturns(r, g)

NextLearn == LearnArrives \/ LearnGenerated

SpecLearn == InitAgents /\ [][NextLearn]_vars

(* The dispatcher on its own: any batch, any set of failing providers. *)
ActionItems ==
    {Name("weather_api"), Name("traffic_api"), Name("call_police"),
     Name("planned_actions"), Obj}

RECURSIVE ListsOf(_, _)
ListsOf(S, n) ==
    IF n = 0 THEN {<<>>}
    ELSE LET shorter == ListsOf(S, n - 1)
         IN  shorter \cup {Append(l, x) : l \in {m \in shorter : Len(m) = n - 1}, x \in S}

FailingChoices == {{}, {"traffic_api"}, {"weather_api", "traffic_api"}}

InitDispatch ==
    /\ EngineStart
    /\ AgentStart
    /\ twilio = FALSE
    /\ unreachable = {}
    /\ probe \in {Call("dispatch", items, failing, GenerationFails, <<>>, "-") :
                      items \in ListsOf(ActionItems, MaxActions), failing \in FailingChoices}

Dispatches ==
    /\ probe.fn = "dispatch"
    /\ ~probe.done
    /\ LET x == execute_loop(probe.items, 1, <<>>, probe.failing)
       IN  probe' = [probe EXCEPT !.done = TRUE, !.results = x.results, !.exc = x.exc]
    /\ UNCHANGED <<agents, reqs, returned, monitorVars, socketVars>>
    /\ UNCHANGED engineVars

SpecDispatch == InitDispatch /\ [][Dispatches]_vars

(* The planner on its own, from the return of its generation call: the  *)
(* call failed, or returned any text of up to MaxTokens tokens.           *)
PlanTokens ==
    {Word, LBracket, RBracket, StepTok(1, "check_route"), StepTok(3, "share_location")}

(* Longer replies: a second array after the first, prose holding a ']'   *)
(* after the array, prose holding a '[' before it.                         *)
BracketedReplies ==
    { Text(<<Word, LBracket, StepTok(1, "check_route"), RBracket, Word,
             LBracket, StepTok(3, "share_location"), RBracket>>),
      Text(<<LBracket, StepTok(1, "check_route"), RBracket, Word, RBracket>>),
      Text(<<Word, LBracket, Word, LBracket, StepTok(1, "check_route"), RBracket>>) }

PlanReplies ==
    {GenerationFails} \cup {Text(t) : t \in ListsOf(PlanTokens, MaxTokens)}
        \cup BracketedReplies

InitPlanner ==
    /\ EngineStart
    /\ AgentStart
    /\ twilio = FALSE
    /\ unreachable = {}
    /\ probe \in {Call("plan", <<>>, {}, reply, <<>>, "-") : reply \in PlanReplies}

Plans ==
    /\ probe.fn = "plan"
    /\ ~probe.done
    /\ probe' = [probe EXCEPT !.done = TRUE,
                              !.plan = create_multi_step_plan(probe.reply).plan]
    /\ UNCHANGED <<agents, reqs, returned, monitorVars, socketVars>>
    /\ UNCHANGED engineVars

SpecPlanner == InitPlanner /\ [][Plans]_vars

(* The classifier on its own: messages of up to MaxWords words, and for  *)
(* _assess_urgency any intent as its second argument.                     *)
Vocabulary ==
    {<<"p", "l", "a", "n">>,
     <<"r", "o", "u", "t", "e">>,
     <<"h", "e", "l", "p">>,
     <<"m", "e">>,
     <<"d", "a", "n", "g", "e", "r">>,
     <<"l", "e", "v", "e", "l">>,
     <<"l", "o", "s", "t">>,
     <<"f", "i", "r", "e">>,
     <<"i">>,
     <<"p", "r", "e", "f", "e", "r">>,
     <<"H", "e", "l", "l", "o">>}

RECURSIVE Join(_)
Join(ws) ==
    IF ws = <<>> THEN <<>>
    ELSE IF Len(ws) = 1 THEN ws[1]
    ELSE ws[1] \o <<" ">> \o Join(Tail(ws))

Intents ==
    {intent_patterns[i].intent : i \in 1..Len(intent_patterns)} \cup {"general_inquiry"}

InitClassify ==
    /\ EngineStart
    /\ AgentStart
    /\ twilio = FALSE
    /\ unreachable = {}
    /\ probe \in {Call("classify", <<>>, {}, GenerationFails, Join(ws), intent) :
                      ws \in ListsOf(Vocabulary, MaxWords), intent \in Intents}

Classifies ==
    /\ probe.fn = "classify"
    /\ ~probe.done
    /\ probe' = [probe EXCEPT !.done = TRUE,
                              !.intent_out = detect_intent(probe.message),
                              !.urgency_out = assess_urgency(probe.message, probe.intent)]
    /\ UNCHANGED <<agents, reqs, returned, monitorVars, socketVars>>
    /\ UNCHANGED engineVars

SpecClassify == InitClassify /\ [][Classifies]_vars

(* The assessment on its own: any readings of the three data sources.   *)
(* The sources stand for provider calls; the stand-ins in the code give  *)
(* a safety_impact of low, medium or high, 0 to 3 traffic alerts and two *)
(* news alerts.                                                           *)
SafetyImpacts == {"low", "medium", "high"}

NewsAlerts == {"Construction work on Main Street", "Weather advisory for evening hours"}

InitAssess ==
    /\ EngineStart
    /\ AgentStart
    /\ twilio = FALSE
    /\ unreachable = {}
    /\ probe \in {[NoCall EXCEPT !.fn = "assess", !.weather = weather,
                                  !.traffic = traffic, !.news = news] :
                      weather \in SafetyImpacts, traffic \in 0..MaxTraffic,
                      news \in ListsOf(NewsAlerts, MaxNews)}

Assesses ==
    /\ probe.fn = "assess"
    /\ ~probe.done
    /\ probe' = [probe EXCEPT
            !.done = TRUE,
            !.status = autonomous_safety_assessment(probe.weather, probe.traffic, probe.news)]
    /\ UNCHANGED <<agents, reqs, returned, monitorVars, socketVars>>
    /\ UNCHANGED engineVars

SpecAssess == InitAssess /\ [][Assesses]_vars

(* A connected user: the monitor, conversational requests, session end. *)
MonitorMenu ==
    { [user |-> "u1", via |-> "conversation", message |-> Hello, context |-> "dict"],
      [user |-> "u1", via |-> "direct", message |-> Hello, context |-> "none"] }

Connects ==
    \E u \in {"u1"} :
        /\ connect_websocket(u)
        /\ UNCHANGED <<reqs, returned, socketVars, probe>>
        /\ UNCHANGED engineVars

ConnectsOnce == monitors = <<>> /\ Connects

Disconnects ==
    \E u \in {"u1"} :
        /\ u \in websocket_connections
        /\ disconnect_websocket(u)
        /\ UNCHANGED <<agents, reqs, returned, monitors, socketVars, probe>>
        /\ UNCHANGED engineVars

Monitors ==
    \E m \in 1..MaxMonitors, weather \in WeatherImpacts, traffic \in TrafficAlerts :
        autonomous_monitoring(m, weather, traffic)

EndsSession == \E u \in {"u1"} : end_conversation_session(u)

MonitoredArrives ==
    \E q \in MonitorMenu :
        /\ Len(reqs) < MaxRequests
        /\ Request(q.user, q.via, q.message, q.context)

NextMonitor == ConnectsOnce \/ Monitors \/ EndsSession \/ MonitoredArrives \/ Generated \/ Planned

SpecMonitor == InitAgents /\ [][NextMonitor]_vars

(* A user who connects, disconnects and connects again, and whose        *)
(* session is ended: the monitoring tasks of the user.                    *)
NextReconnect == Connects \/ Disconnects \/ Monitors \/ EndsSession

SpecReconnect == InitAgents /\ [][NextReconnect]_vars

(* Each user connects once: one monitoring task per agent, and the        *)
(* session of the first user may be ended.                                 *)
ConnectsEach ==
    \E u \in Users :
        /\ \A m \in 1..Len(monitors) : monitors[m].user # u
        /\ connect_websocket(u)
        /\ UNCHANGED <<reqs, returned, socketVars, probe>>
        /\ UNCHANGED engineVars

NextCycles == ConnectsEach \/ Monitors \/ EndsSession

SpecCycles == InitAgents /\ [][NextCycles]_vars

----------------------------------------------------------------------------
(* The websocket endpoints (main.py)                                       *)

MaxHandlers == 2    \* endpoint tasks accepted
MaxFrames == 2      \* text frames one endpoint task receives
MaxChats == 1       \* chat messages sent over the sockets
MaxJourneys == 2    \* calls of start_journey
MaxCycles == 2      \* times one monitor_journey task wakes from its sleep

(* A text frame sent by the client. json: what json.loads makes of the    *)
(* text ("invalid": it raises JSONDecodeError; "array": a value that is no *)
(* object); type: message.get("type"); field: the entry the branch of     *)
(* that type reads ("location", "response"), absent, whole ("ok") or a    *)
(* location without "lat" ("partial").                                     *)
Frame(json, type, field) == [json |-> json, type |-> type, field |-> field]

Frames ==
    { Frame("invalid", "-", "absent"),
      Frame("array", "-", "absent"),
      Frame("object", "location_update", "ok"),
      Frame("object", "location_update", "partial"),
      Frame("object", "location_update", "absent"),
      Frame("object", "check_in_response", "ok"),
      Frame("object", "check_in_response", "absent"),
      Frame("object", "chat_message", "ok"),
      Frame("object", "ping", "absent") }

NoFrame == Frame("-", "-", "-")

(* SafetyAgent.__init__ as far as the endpoints read it: journey is the   *)
(* object's place in journeys, where its is_monitoring flag and its task  *)
(* are kept.                                                               *)
NewSafetyAgent(j) == [last_location |-> "none", journey |-> j]

(* The object after __init__ (is_monitoring = False) and the task that    *)
(* asyncio.create_task(agent.monitor_journey(request)) makes for it.      *)
NewJourney(u) == [user |-> u, is_monitoring |-> FALSE, pc |-> "created", cycles |-> 0]

(* SafetyAgent.stop_monitoring. *)
stop_monitoring(j) == [journeys EXCEPT ![j].is_monitoring = FALSE]

(* One step of a monitor_journey task, from one suspension to the next:   *)
(* its first run sets is_monitoring and reaches asyncio.sleep(30); a wake *)
(* prints, reads is_monitoring again and sleeps or returns.               *)
monitor_journey(j) ==
    /\ j \in 1..Len(journeys)
    /\ \/ /\ journeys[j].pc = "created"
          /\ journeys' = [journeys EXCEPT ![j].is_monitoring = TRUE, ![j].pc = "sleeping"]
       \/ /\ journeys[j].pc = "sleeping"
          /\ journeys[j].is_monitoring => journeys[j].cycles < MaxCycles
          /\ journeys' = [journeys EXCEPT
                             ![j].cycles = @ + 1,
                             ![j].pc = IF journeys[j].is_monitoring
                                       THEN "sleeping" ELSE "returned"]
    /\ UNCHANGED <<agents, reqs, returned, monitorVars, active_agents, sockets,
                   handlers, probe>>
    /\ UNCHANGED engineVars

(* SafetyAgent.update_location: location_data['lat'] and ['lng']. *)
update_location(agent, f) ==
    IF f.field = "ok"
    THEN [raised |-> FALSE, agent |-> [agent EXCEPT !.last_location = "sent"]]
    ELSE [raised |-> TRUE, agent |-> agent]

(* One pass of the receive loop of /ws/{user_id} after receive_text gave  *)
(* the frame: what became of the frame and of active_agents. No except    *)
(* clause of the endpoint names the errors raised here.                    *)
websocket_endpoint(u, f) ==
    LET same == [raised |-> FALSE, result |-> "ignored", active_agents |-> active_agents]
        fails == [raised |-> TRUE, result |-> "raised", active_agents |-> active_agents]
    IN  IF f.json # "object" THEN fails
        ELSE IF f.type = "location_update"
        THEN IF u \notin DOMAIN active_agents THEN same
             ELSE IF f.field = "absent" THEN fails
             ELSE LET upd == update_location(active_agents[u], f)
                  IN  IF upd.raised THEN fails
                      ELSE [raised |-> FALSE, result |-> "handled",
                            active_agents |-> [active_agents EXCEPT ![u] = upd.agent]]
        ELSE IF f.type = "check_in_response"
        THEN IF u \notin DOMAIN active_agents THEN same
             ELSE IF f.field = "absent" THEN fails
             ELSE [same EXCEPT !.result = "handled"]
        ELSE same

(* The same on /ws/agentic/{user_id}: agentic_agents is never filled, so  *)
(* a location_update is passed over; a chat_message goes to               *)
(* process_conversation ("chat").                                          *)
agentic_websocket_endpoint(u, f) ==
    IF f.json # "object" THEN [raised |-> TRUE, result |-> "raised"]
    ELSE IF f.type = "chat_message" THEN [raised |-> FALSE, result |-> "chat"]
    ELSE [raised |-> FALSE, result |-> "ignored"]

NewHandler(endpoint, u) ==
    [endpoint |-> endpoint, user |-> u, pc |-> "receiving", received |-> 0,
     frame |-> NoFrame, result |-> "-", req |-> 0]

(* The endpoint task waits for process_conversation to return. *)
Busy(h) == handlers[h].req # 0 /\ reqs[handlers[h].req].pc # "returned"

AtReceive(h) == h \in 1..Len(handlers) /\ handlers[h].pc = "receiving" /\ ~Busy(h)

Took(h, f, o) ==
    [handlers EXCEPT ![h].received = @ + 1, ![h].frame = f, ![h].result = o.result,
                     ![h].pc = IF o.raised THEN "crashed" ELSE "receiving"]

(* POST /api/journey/start and /api/journey/stop/{user_id}. *)
start_journey(u) ==
    /\ Len(journeys) < MaxJourneys
    /\ journeys' = Append(journeys, NewJourney(u))
    /\ active_agents' = [x \in DOMAIN active_agents \cup {u} |->
                            IF x = u THEN NewSafetyAgent(Len(journeys) + 1)
                            ELSE active_agents[x]]
    /\ UNCHANGED <<agents, reqs, returned, monitorVars, sockets, handlers, probe>>
    /\ UNCHANGED engineVars

(* The 404 branch changes nothing. *)
stop_journey(u) ==
    /\ u \in DOMAIN active_agents
    /\ journeys' = stop_monitoring(active_agents[u].journey)
    /\ active_agents' = [x \in DOMAIN active_agents \ {u} |-> active_agents[x]]
    /\ UNCHANGED <<agents, reqs, returned, monitorVars, sockets, handlers, probe>>
    /\ UNCHANGED engineVars

AcceptsSocket(u) ==
    /\ Len(handlers) < MaxHandlers
    /\ sockets' = sockets \cup {u}
    /\ handlers' = Append(handlers, NewHandler("/ws", u))
    /\ UNCHANGED <<agents, reqs, returned, monitorVars, active_agents, journeys, probe>>
    /\ UNCHANGED engineVars

AcceptsAgentic(u) ==
    /\ Len(handlers) < MaxHandlers
    /\ connect_websocket(u)
    /\ handlers' = Append(handlers, NewHandler("/ws/agentic", u))
    /\ UNCHANGED <<reqs, returned, active_agents, sockets, journeys, probe>>
    /\ UNCHANGED engineVars

ReceivesSocket(h, f) ==
    LET o == websocket_endpoint(handlers[h].user, f)
    IN  /\ AtReceive(h)
        /\ handlers[h].endpoint = "/ws"
        /\ handlers[h].received < MaxFrames
        /\ handlers' = Took(h, f, o)
        /\ active_agents' = o.active_agents
        /\ UNCHANGED <<agents, reqs, returned, monitorVars, sockets, journeys, probe>>
        /\ UNCHANGED engineVars

ReceivesAgentic(h, f) ==
    LET o == agentic_websocket_endpoint(handlers[h].user, f)
    IN  /\ AtReceive(h)
        /\ handlers[h].endpoint = "/ws/agentic"
        /\ handlers[h].received < MaxFrames
        /\ IF o.result = "chat"
           THEN /\ Len(reqs) < MaxChats
                /\ process_request(handlers[h].user, "conversation", Hello, "dict")
                /\ handlers' = [Took(h, f, o) EXCEPT ![h].req = Len(reqs) + 1]
                /\ UNCHANGED <<monitorVars, active_agents, sockets, journeys, probe>>
           ELSE /\ handlers' = Took(h, f, o)
                /\ UNCHANGED <<agents, reqs, returned, monitorVars, active_agents,
                               sockets, journeys, probe>>
                /\ UNCHANGED engineVars

(* receive_text raises WebSocketDisconnect: the except clause. *)
Closes(h) ==
    /\ AtReceive(h)
    /\ handlers' = [handlers EXCEPT ![h].pc = "closed"]
    /\ IF handlers[h].endpoint = "/ws"
       THEN /\ sockets' = sockets \ {handlers[h].user}
            /\ UNCHANGED websocket_connections
       ELSE /\ disconnect_websocket(handlers[h].user)
            /\ UNCHANGED sockets
    /\ UNCHANGED <<agents, reqs, returned, monitors, active_agents, journeys, probe>>
    /\ UNCHANGED engineVars

JourneyStarts == \E u \in {"u1"} : start_journey(u)

JourneyStops == \E u \in {"u1"} : stop_journey(u)

SocketAccepted == \E u \in {"u1"} : AcceptsSocket(u)

AgenticAccepted == \E u \in {"u1"} : AcceptsAgentic(u)

SocketReceives == \E h \in 1..MaxHandlers, f \in Frames : ReceivesSocket(h, f)

AgenticReceives == \E h \in 1..MaxHandlers, f \in Frames : ReceivesAgentic(h, f)

SocketCloses == \E h \in 1..MaxHandlers : Closes(h)

NextSocket ==
    \/ JourneyStarts \/ JourneyStops \/ SocketAccepted \/ AgenticAccepted
    \/ SocketReceives \/ AgenticReceives \/ SocketCloses \/ Generated \/ Planned

SpecSocket == InitAgents /\ [][NextSocket]_vars

(* The journeys alone: the two endpoints and the monitoring tasks. *)
JourneyMonitors == \E j \in 1..MaxJourneys : monitor_journey(j)

NextJourney == JourneyStarts \/ JourneyStops \/ JourneyMonitors

SpecJourney == InitAgents /\ [][NextJourney]_vars

----------------------------------------------------------------------------
(* Reading the engine's output *)

Lines == 1..Len(out)

(* The line that announced the activation which made task t. *)
IsActivationOf(j, t) == out[j].type = "activated" /\ out[j].task = t

(* Task t belongs to an incident of user u that began before line j. *)
BegunBefore(t, u, j) ==
    /\ t \in 1..Len(tasks)
    /\ tasks[t].user = u
    /\ \E i \in Lines : i < j /\ IsActivationOf(i, t)

AuthorityLines(t) == {k \in Lines : out[k].type = "authority" /\ out[k].task = t}

ResolvedLines(u) == {j \in Lines : out[j].type = "resolved" /\ out[j].user = u}

(* No activation for u between lines j and k. *)
SameIncident(u, j, k) ==
    ~\E i \in Lines : j < i /\ i < k /\ out[i].type = "activated" /\ out[i].user = u

----------------------------------------------------------------------------
(* C1: once resolve_emergency(u) has completed before the 300 s of u's     *)
(* pending escalation task have elapsed, no authority notification for     *)
(* that incident is issued.                                                *)
C1_NoAuthorityAfterResolve ==
    \A u \in Users : \A j \in ResolvedLines(u) : \A t \in 1..Len(tasks) :
        (BegunBefore(t, u, j) /\ out[j].time < tasks[t].due)
            => \A k \in AuthorityLines(t) : k < j

(* C2: at most one delayed escalation task is pending for a user's        *)
(* incident: a second activate with no resolve in between makes no second *)
(* timer.                                                                  *)
UnresolvedPending(u) ==
    {t \in 1..Len(tasks) :
        /\ tasks[t].user = u
        /\ ~tasks[t].fired
        /\ \A j \in ResolvedLines(u) : BegunBefore(t, u, j) => FALSE}

C2_OnePendingTaskPerIncident ==
    \A u \in Users : Cardinality(UnresolvedPending(u)) <= 1

(* C7: resolving the same incident twice sends one RESOLVED batch: the    *)
(* second call sends nothing to the contacts, and no authority message    *)
(* follows.                                                                *)
C7_ResolveTwiceOneBatch ==
    \A u \in Users : \A j, k \in ResolvedLines(u) :
        (j < k /\ SameIncident(u, j, k) /\ \E t \in 1..Len(tasks) : BegunBefore(t, u, j))
            => /\ \A m \in Lines :
                     (m > k /\ out[m].type = "sms" /\ out[m].user = u) => out[m].kind # "resolved"
               /\ \A m \in Lines : (m > j /\ out[m].user = u) => out[m].type # "authority"

(* C8: a delayed task that is not resolved before its deadline fires      *)
(* exactly once, at or after the deadline, and its authority notification *)
(* carries the user id, the reason, the location and the time.            *)
FiredOnce(t) ==
    IF tasks[t].fired
    THEN /\ Cardinality(AuthorityLines(t)) = 1
         /\ \A k \in AuthorityLines(t) :
                /\ out[k].user = tasks[t].user
                /\ out[k].reason = tasks[t].reason
                /\ out[k].loc = tasks[t].loc
                /\ out[k].time >= tasks[t].due
                /\ \E i \in Lines : i < k /\ IsActivationOf(i, t)
                                       /\ out[i].user = out[k].user
                                       /\ out[i].reason = out[k].reason
                                       /\ out[i].loc = out[k].loc
    ELSE AuthorityLines(t) = {}

C8_EscalationFiresOnce ==
    /\ [](\A t \in 1..Len(tasks) : FiredOnce(t))
    /\ \A t \in 1..MaxCalls : (t <= Len(tasks)) ~> (t <= Len(tasks) /\ tasks[t].fired)

C8_Witness ==
    \E t \in 1..Len(tasks) :
        /\ tasks[t].fired
        /\ ResolvedLines(tasks[t].user) = {}
        /\ AuthorityLines(t) # {}

(* C9: resolve_emergency called after the delayed escalation has fired    *)
(* completes without error, announces the resolution and disables the     *)
(* measures, and no authority notification follows it.                    *)
AfterEscalation(u, j) ==
    /\ \E t \in 1..Len(tasks) : BegunBefore(t, u, j)
    /\ \A t \in 1..Len(tasks) :
          BegunBefore(t, u, j) => \E k \in AuthorityLines(t) : k < j

LateResolves ==
    {c \in 1..Len(ret) : ret[c].op = "resolve" /\ AfterEscalation(ret[c].user, ret[c].line)}

C9_LateResolveIsHarmless ==
    \A c \in LateResolves :
        LET u == ret[c].user
            j == ret[c].line
        IN  /\ ~ret[c].raised
            /\ j \in ResolvedLines(u)
            /\ \E m \in Lines : m > j /\ out[m].type = "disabled" /\ out[m].user = u
                                  /\ out[m].time = out[j].time
            /\ \A t \in 1..Len(tasks) :
                  BegunBefore(t, u, j) => \A k \in AuthorityLines(t) : k < j

C9_Witness == LateResolves # {}

----------------------------------------------------------------------------
(* Reading the requests *)

RequestsOf(u) == {r \in 1..Len(reqs) : reqs[r].user = u}

(* The requests of u that reached the agent: each added one turn. *)
TurnsOf(u) ==
    {r \in RequestsOf(u) : ~(reqs[r].via = "conversation" /\ reqs[r].context = "list")}

(* C3: one conversational request per agent is processed at a time: a     *)
(* second request for the same user does not start on the agent before    *)
(* the first has returned.                                                 *)
C3_OneRequestAtATime ==
    \A u \in Users : Cardinality({r \in RequestsOf(u) : InFlight(r)}) <= 1

(* C4: the requests of one user are answered in arrival order: a request  *)
(* has returned only when every earlier request of that user has.          *)
C4_ArrivalOrder ==
    \A u \in Users : \A a, b \in RequestsOf(u) :
        (a < b /\ reqs[b].pc = "returned") => reqs[a].pc = "returned"

(* C5: process_natural_language_request never raises; it returns a        *)
(* response, which carries an error field and a non-empty fallback action  *)
(* list when a failure escaped the inner recoveries.                       *)
C5_NeverRaises ==
    returned.agent.called =>
        /\ ~returned.agent.raised
        /\ "response" \in DOMAIN returned.agent.response
        /\ returned.agent.escaped =>
              /\ "error" \in DOMAIN returned.agent.response
              /\ "fallback_actions" \in DOMAIN returned.agent.response
              /\ returned.agent.response["fallback_actions"].tag = "list"
              /\ returned.agent.response["fallback_actions"].items # <<>>

C5_Witness ==
    /\ returned.agent.called
    /\ returned.agent.escaped
    /\ reqs[returned.req].context # "none"

(* C6: the conversation window never holds more than 10 turns, between    *)
(* the steps of interleaved requests too, and holds the last turns that    *)
(* arrived, in arrival order.                                              *)
WindowOf(u) == agents[u].conversation_history

C6_WindowHoldsLastTurns ==
    \A u \in DOMAIN agents :
        LET h == WindowOf(u)
        IN  /\ Len(h) <= context_window
            /\ Len(h) = IF Cardinality(TurnsOf(u)) < context_window
                        THEN Cardinality(TurnsOf(u)) ELSE context_window
            /\ \A i \in 1..Len(h) : h[i].req \in TurnsOf(u)
            /\ \A i \in 1..(Len(h) - 1) : h[i].req < h[i + 1].req
            /\ \A r \in TurnsOf(u) :
                  (Len(h) > 0 /\ r >= h[1].req) => \E i \in 1..Len(h) : h[i].req = r

C6_Witness ==
    /\ "u1" \in DOMAIN agents
    /\ Cardinality(TurnsOf("u1")) > context_window + 1
    /\ Len(WindowOf("u1")) = context_window
    /\ WindowOf("u1")[1].req = Len(reqs) - context_window + 1
    /\ \E a, b \in RequestsOf("u1") : a < b /\ InFlight(a) /\ reqs[b].pc = "returned"

(* C10: the response process_conversation returns for a message of         *)
(* critical urgency includes emergency_activated = true, whatever the      *)
(* generation capability did.                                              *)
C10_CriticalIsActivated ==
    (/\ returned.req # 0
     /\ reqs[returned.req].via = "conversation"
     /\ reqs[returned.req].urgency = "critical")
        => /\ "emergency_activated" \in DOMAIN returned.response
           /\ returned.response["emergency_activated"] = JBool(TRUE)

----------------------------------------------------------------------------
(* C11: however the get_or_create_agent calls of one user interleave,     *)
(* one agent is made for that user, the registry holds it, and every      *)
(* caller received it.                                                     *)
C11_OneAgentPerUser ==
    \A u \in Users :
        /\ u \in DOMAIN agents => agents[u].instance = 1
        /\ \A r \in RequestsOf(u) :
              /\ u \in DOMAIN agents
              /\ reqs[r].agent = agents[u].instance

C11_Witness ==
    \E a, b \in RequestsOf("u1") :
        /\ a < b
        /\ InFlight(a)
        /\ InFlight(b)
        /\ reqs[a].agent = reqs[b].agent

----------------------------------------------------------------------------
(* C12: the monitoring loop of a user, once entered, ends only after the  *)
(* session was ended; a conversational request on the same agent does not *)
(* end it.                                                                 *)
C12_MonitorSurvivesRequests ==
    \A m \in 1..Len(monitors) :
        monitors[m].pc = "exited" => monitors[m].session_ended

----------------------------------------------------------------------------
(* Reading a call of the dispatcher *)

Dispatched == probe.fn = "dispatch" /\ probe.done

ActionNames == \A i \in 1..Len(probe.items) : probe.items[i].tag = "str"

ProviderRaises(i) ==
    probe.items[i].s \in available_tools /\ probe.items[i].s \in probe.failing

ResultOf(action) ==
    LET k == CHOOSE k \in 1..Len(probe.results) : probe.results[k].s = action
    IN  probe.results[k].r

Reported(action) == \E k \in 1..Len(probe.results) : probe.results[k].s = action

(* C13: in a batch of action names where the provider of one raises, the  *)
(* batch does not raise, the raising action's result is an error, and     *)
(* every other action has its result: that of its provider when it is     *)
(* registered and does not raise.                                          *)
C13_DispatcherIsolation ==
    (Dispatched /\ ActionNames /\ \E i \in 1..Len(probe.items) : ProviderRaises(i))
        => /\ ~probe.exc
           /\ \A i \in 1..Len(probe.items) :
                 /\ Reported(probe.items[i].s)
                 /\ ProviderRaises(i) => ResultOf(probe.items[i].s) = "error executing"
                 /\ (probe.items[i].s \in available_tools /\ ~ProviderRaises(i))
                        => ResultOf(probe.items[i].s) = "tool result"

C13_Witness ==
    /\ Dispatched
    /\ ActionNames
    /\ Len(probe.items) = 3
    /\ probe.items[1].s = "weather_api"
    /\ probe.items[2].s = "traffic_api"
    /\ probe.items[3].s = "call_police"
    /\ probe.failing = {"traffic_api"}
    /\ Len(probe.results) = 3

(* C14: an action name that is not in the tool registry gets the result   *)
(* "not implemented", and the other actions of the batch are reported.    *)
C14_UnknownActionNotImplemented ==
    (Dispatched /\ ActionNames)
        => \A i \in 1..Len(probe.items) :
              probe.items[i].s \notin available_tools
                 => /\ ~probe.exc
                    /\ Reported(probe.items[i].s)
                    /\ ResultOf(probe.items[i].s) = "not implemented"
                    /\ \A j \in 1..Len(probe.items) : Reported(probe.items[j].s)

----------------------------------------------------------------------------
(* A text holds a JSON array when some '[' .. ']' of it encloses steps     *)
(* only.                                                                   *)
HoldsArray(text) ==
    \E a, b \in 1..Len(text) :
        /\ a < b
        /\ text[a].t = "["
        /\ text[b].t = "]"
        /\ \A i \in (a + 1)..(b - 1) : text[i].t = "step"

NoArrayFrom(reply) == reply.raises \/ ~HoldsArray(reply.text)

(* C15: when the generation call of the planner fails or returns text     *)
(* holding no JSON array, the planner returns the two-step plan: ordinals *)
(* 1 and 2, each step with safety considerations.                          *)
C15_PlannerFallback ==
    (probe.fn = "plan" /\ probe.done /\ NoArrayFrom(probe.reply))
        => /\ ~probe.exc
           /\ Len(probe.plan) = 2
           /\ probe.plan[1].n = 1
           /\ probe.plan[2].n = 2
           /\ \A i \in 1..2 : probe.plan[i].tag = "step" /\ probe.plan[i].r # ""
           /\ probe.plan = create_fallback_plan

C15_Witness ==
    /\ probe.fn = "plan"
    /\ probe.done
    /\ probe.reply = Text(<<LBracket, Word, RBracket>>)
    /\ Len(probe.plan) = 2

----------------------------------------------------------------------------
(* A text holds a JSON object when some '{' .. '}' of it encloses members *)
(* only.                                                                   *)
HoldsObject(text) ==
    \E a, b \in 1..Len(text) :
        /\ a < b
        /\ text[a].t = "{"
        /\ text[b].t = "}"
        /\ \A i \in (a + 1)..(b - 1) : text[i].t = "pair"

GenerationFailed(r) ==
    /\ reqs[r].reply # <<>>
    /\ reqs[r].reply[1].raises \/ ~HoldsObject(reqs[r].reply[1].text)

DefaultConfidences == {JNum(50), JNum(60), JNum(70)}

(* C16: a request whose generation call failed, or returned text holding  *)
(* no JSON object, is answered with a default response: no error field,   *)
(* the six standard fields, a default confidence.                          *)
C16_GenerationFailureRecovered ==
    (returned.req # 0 /\ returned.agent.called /\ GenerationFailed(returned.req))
        => LET response == returned.agent.response
           IN  /\ ~returned.agent.escaped
               /\ ~returned.agent.raised
               /\ "error" \notin DOMAIN response
               /\ {"response", "reasoning", "confidence", "actions",
                    "requires_planning", "safety_priority"} \subseteq DOMAIN response
               /\ response["confidence"] \in DefaultConfidences
               /\ response["response"] \in {JStr("fallback"), JStr("ai_response")}

C16_Witness ==
    /\ returned.req # 0
    /\ returned.agent.called
    /\ GenerationFailed(returned.req)
    /\ ~reqs[returned.req].reply[1].raises
    /\ returned.agent.response["confidence"] = JNum(50)

----------------------------------------------------------------------------
(* Reading a call of the classifier *)

Classified == probe.fn = "classify" /\ probe.done

HasKeyword(keywords) == any_keyword(keywords, message_lower(probe.message))

(* C17: the urgency is critical when the text has a critical keyword,     *)
(* whatever the intent; else high when it has a high-urgency keyword;     *)
(* else medium for the intents safety_check and route_planning; else low. *)
C17_UrgencyCascade ==
    Classified =>
        /\ HasKeyword(critical_keywords) => probe.urgency_out = "critical"
        /\ (~HasKeyword(critical_keywords) /\ HasKeyword(high_keywords))
              => probe.urgency_out = "high"
        /\ (~HasKeyword(critical_keywords) /\ ~HasKeyword(high_keywords)
               /\ probe.intent \in {"safety_check", "route_planning"})
              => probe.urgency_out = "medium"
        /\ (~HasKeyword(critical_keywords) /\ ~HasKeyword(high_keywords)
               /\ probe.intent \notin {"safety_check", "route_planning"})
              => probe.urgency_out = "low"

C17_Witness ==
    /\ Classified
    /\ probe.message = Join(<<<<"p", "l", "a", "n">>, <<"f", "i", "r", "e">>>>)
    /\ probe.intent = "route_planning"
    /\ probe.urgency_out = "critical"

DeclaredOrder ==
    <<"route_planning", "safety_check", "emergency", "weather_inquiry",
      "traffic_inquiry", "location_sharing", "learning_request">>

Matching(category) ==
    \E i \in 1..Len(intent_patterns) :
        /\ intent_patterns[i].intent = category
        /\ \E j \in 1..Len(intent_patterns[i].patterns) :
              re_search(intent_patterns[i].patterns[j], message_lower(probe.message))

(* C18: the intent is the first category of the declared order with a     *)
(* pattern that matches the lower-cased text, and general_inquiry when    *)
(* none matches.                                                           *)
C18_FirstMatchingIntent ==
    Classified =>
        LET matching == {k \in 1..Len(DeclaredOrder) : Matching(DeclaredOrder[k])}
        IN  IF matching = {} THEN probe.intent_out = "general_inquiry"
            ELSE probe.intent_out = DeclaredOrder[MinOf(matching)]

C18_Witness ==
    /\ Classified
    /\ probe.message = Join(<<<<"d", "a", "n", "g", "e", "r">>, <<"l", "e", "v", "e", "l">>>>)
    /\ Matching("emergency")
    /\ probe.intent_out = "safety_check"

----------------------------------------------------------------------------
----------------------------------------------------------------------------
(* C20: the response process_conversation returns for a message of intent *)
(* learning_request and low urgency includes learning_confirmed = true.   *)
C20_LearningIsConfirmed ==
    (/\ returned.req # 0
     /\ reqs[returned.req].via = "conversation"
     /\ reqs[returned.req].intent = "learning_request"
     /\ reqs[returned.req].urgency = "low")
        => /\ "learning_confirmed" \in DOMAIN returned.response
           /\ returned.response["learning_confirmed"] = JBool(TRUE)

----------------------------------------------------------------------------
(* Reading a call of the assessment *)
Assessed == probe.fn = "assess" /\ probe.done

FactorCount == Len(probe.status.risk_factors)

Factors == {probe.status.risk_factors[i] : i \in 1..FactorCount}

(* C21: overall risk is high with more than 2 risk factors, medium with  *)
(* 1 or 2, low with none; requires_action is true exactly when more than *)
(* 1 factor is present.                                                    *)
C21_RiskFromFactorCount ==
    Assessed =>
        /\ FactorCount > 2 => probe.status.overall_risk = "high"
        /\ FactorCount \in {1, 2} => probe.status.overall_risk = "medium"
        /\ FactorCount = 0 => probe.status.overall_risk = "low"
        /\ probe.status.requires_action <=> FactorCount > 1

C21_Witness ==
    /\ Assessed
    /\ FactorCount = 2
    /\ probe.status.overall_risk = "medium"
    /\ probe.status.requires_action

(* C22: the risk factors hold adverse_weather exactly when the weather    *)
(* safety impact is high, traffic_incidents exactly when the traffic      *)
(* safety alerts exceed 2, local_incidents exactly when the news carries  *)
(* more than 1 safety alert; impact high, 3 traffic alerts and 2 news     *)
(* alerts give 3 factors, overall risk high and requires_action.          *)
C22_RiskFactors ==
    Assessed =>
        /\ "adverse_weather" \in Factors <=> probe.weather = "high"
        /\ "traffic_incidents" \in Factors <=> probe.traffic > 2
        /\ "local_incidents" \in Factors <=> Len(probe.news) > 1
        /\ Factors \subseteq {"adverse_weather", "traffic_incidents", "local_incidents"}
        /\ Cardinality(Factors) = FactorCount
        /\ (probe.weather = "high" /\ probe.traffic = 3 /\ Len(probe.news) = 2)
              => /\ FactorCount = 3
                 /\ probe.status.overall_risk = "high"
                 /\ probe.status.requires_action

C22_Witness ==
    /\ Assessed
    /\ probe.weather = "high"
    /\ probe.traffic = 3
    /\ Len(probe.news) = 2
    /\ FactorCount = 3

----------------------------------------------------------------------------
(* Reading the monitors and what the engine emitted for a user *)
ContactsNotified(u) ==
    \E i \in 1..Len(out) : out[i].type = "sms" /\ out[i].user = u

TaskScheduled(u) == \E t \in 1..Len(tasks) : tasks[t].user = u

AssessedHigh(u) == \E m \in 1..Len(monitors) : monitors[m].user = u /\ monitors[m].risk = "high"

(* C23: when a monitor cycle assessed overall risk high, the emergency   *)
(* contacts of the user were notified and no delayed authority task was   *)
(* scheduled; a user whose cycles assessed no more than medium has had    *)
(* no contact notified and no task scheduled.                             *)
C23_HighRiskNotifiesContacts ==
    \A m \in 1..Len(monitors) :
        LET u == monitors[m].user
        IN  /\ monitors[m].risk = "high" => ContactsNotified(u) /\ ~TaskScheduled(u)
            /\ (monitors[m].risk = "medium" /\ ~AssessedHigh(u))
                  => ~ContactsNotified(u) /\ ~TaskScheduled(u)

(* C29: at most one monitoring loop is running for a user, whatever the  *)
(* connects, disconnects and session ends that came before.               *)
InLoop(m) == monitors[m].pc = "sleeping"

C29_OneMonitorPerUser ==
    \A a, b \in 1..Len(monitors) :
        (InLoop(a) /\ InLoop(b) /\ monitors[a].user = monitors[b].user) => a = b

----------------------------------------------------------------------------
(* Reading one activation: its announcing line j, the task it made, the  *)
(* events it emitted before and after making the task.                    *)
Activations == {j \in Lines : out[j].type = "activated"}

MadeTask(j) == out[j].task \in 1..Len(tasks) /\ tasks[out[j].task].after >= j

TaskPoint(j) == tasks[out[j].task].after

(* The contacts the loop reaches: the entries before the first one that  *)
(* is no mapping.                                                          *)
Reached(u) ==
    CHOOSE n \in 0..Len(directory[u]) :
        /\ \A i \in 1..n : directory[u][i].dict
        /\ n = Len(directory[u]) \/ ~directory[u][n + 1].dict

C30_StagesInOrder ==
    \A j \in Activations :
        /\ MadeTask(j)
        /\ Cardinality({t \in 1..Len(tasks) : tasks[t].after = TaskPoint(j)}) = 1
        /\ tasks[out[j].task].user = out[j].user
        /\ \A i \in (j + 1)..TaskPoint(j) : out[i].type = "sms" /\ out[i].kind = "alert"
        /\ Len(out) >= TaskPoint(j) + 3
        /\ out[TaskPoint(j) + 1].type = "tracking"
        /\ out[TaskPoint(j) + 2].type = "alarm"
        /\ out[TaskPoint(j) + 3].type = "nearby"

C30_Witness ==
    \E j \in Activations :
        /\ MadeTask(j)
        /\ Reached(out[j].user) < Len(directory[out[j].user])
        /\ \E i \in (j + 1)..TaskPoint(j) : ~out[i].ok
        /\ out[TaskPoint(j) + 3].type = "nearby"

----------------------------------------------------------------------------
(* C26: for a message of critical urgency the trigger of the emergency   *)
(* protocol does not wait for the generation capability: while the        *)
(* request is suspended in a generation call the trigger has been issued. *)
C26_TriggerBeforeGeneration ==
    \A r \in 1..Len(reqs) :
        (/\ reqs[r].via = "conversation"
         /\ reqs[r].urgency = "critical"
         /\ InFlight(r))
            => reqs[r].triggered

(* C27: when process_conversation returned a response with               *)
(* emergency_activated = true, the engine was invoked for that user: at   *)
(* least the notification of the emergency contacts ran.                  *)
C27_ActivatedMeansInvoked ==
    (/\ returned.req # 0
     /\ reqs[returned.req].via = "conversation"
     /\ "emergency_activated" \in DOMAIN returned.response
     /\ returned.response["emergency_activated"] = JBool(TRUE))
        => \E i \in Lines :
              /\ out[i].user = reqs[returned.req].user
              /\ out[i].type \in {"sms", "activated"}

(* C28: a request processed alone takes the agent's state through        *)
(* RESPONDING, then PLANNING and RESPONDING again when a plan is made,    *)
(* then LEARNING, then IDLE; it is IDLE once the request has returned,    *)
(* whether it succeeded or failed.                                        *)
C28_StateSequence ==
    (/\ Len(reqs) = 1
     /\ reqs[1].pc = "returned"
     /\ reqs[1].states # <<>>)
        => LET t == reqs[1].states
           IN  /\ agents[reqs[1].user].state = "idle"
               /\ t[1] = "responding"
               /\ t[Len(t)] = "idle"
               /\ \A i \in 1..(Len(t) - 1) :
                     /\ t[i] = "planning" => t[i + 1] = "responding"
                     /\ t[i] = "learning" => t[i + 1] = "idle"
                     /\ t[i + 1] = "learning" => t[i] = "responding"

(* malformed: the frame is no JSON object, or its type is location_update  *)
(* or check_in_response and the entry the branch reads is absent.          *)
malformed(f) ==
    \/ f.json \in {"invalid", "array"}
    \/ f.type \in {"location_update", "check_in_response"} /\ f.field = "absent"

(* C25: a malformed inbound event is rejected with a descriptive result    *)
(* and does not end the endpoint task: after a malformed frame the task is *)
(* still in its receive loop and the frame's result is a rejection.        *)
C25_MalformedIsRejected ==
    \A h \in 1..Len(handlers) :
        malformed(handlers[h].frame) =>
            handlers[h].pc # "crashed" /\ handlers[h].result = "rejected"

(* C25: the endpoint task has ended on a frame that is no JSON. *)
C25_Counterexample ==
    \E h \in 1..Len(handlers) :
        /\ handlers[h].frame.json = "invalid"
        /\ handlers[h].pc = "crashed"

----------------------------------------------------------------------------
(* The lines an activation emitted after making its task, up to the next  *)
(* activation.                                                             *)
MeasureLines(j) ==
    {i \in (TaskPoint(j) + 1)..Len(out) :
        \A k \in (TaskPoint(j) + 1)..i : out[k].type # "activated"}

(* C31: the three supplementary measures are independent: in every        *)
(* activation each measure that does not itself fail is attempted, whether *)
(* or not another of them failed.                                          *)
C31_MeasuresIndependent ==
    \A j \in Activations :
        MadeTask(j) =>
            \A n \in 1..Len(MeasureNames) :
                MeasureNames[n] \notin probe.failing =>
                    \E i \in MeasureLines(j) : out[i].type = MeasureNames[n]

----------------------------------------------------------------------------
(* C32: every plan the planner returns, whatever the generation call      *)
(* gave, is a sequence of steps whose ordinals are 1..N in order: no       *)
(* duplicate, no gap.                                                      *)
C32_OrdinalsOneToN ==
    (probe.fn = "plan" /\ probe.done)
        => \A i \in 1..Len(probe.plan) :
                probe.plan[i].tag = "step" /\ probe.plan[i].n = i

----------------------------------------------------------------------------
(* The first well-formed array of a text: it opens at the leftmost '['    *)
(* from which some stretch of the text reads as one array.                 *)
ArrayAt(text, a, b) == a < b /\ json_loads_array(SubSeq(text, a, b)).ok

FirstArray(text) ==
    LET a == MinOf({x \in 1..Len(text) : \E y \in 1..Len(text) : ArrayAt(text, x, y)})
        b == MinOf({y \in 1..Len(text) : ArrayAt(text, a, y)})
    IN  json_loads_array(SubSeq(text, a, b)).value

(* C33: the planner returns the first well-formed array of the reply,     *)
(* whatever prose, brackets or further arrays surround it, and the         *)
(* fallback plan when the reply holds none or the call failed; it never    *)
(* raises.                                                                 *)
C33_FirstArrayIsThePlan ==
    (probe.fn = "plan" /\ probe.done)
        => /\ ~probe.exc
           /\ probe.plan = IF NoArrayFrom(probe.reply) THEN create_fallback_plan
                           ELSE FirstArray(probe.reply.text)

----------------------------------------------------------------------------
(* The last request to return went through the planner: its response      *)
(* carries the plan the planner returned.                                  *)
PlannerReturned ==
    /\ returned.req # 0
    /\ returned.agent.called
    /\ "plan" \in DOMAIN returned.agent.response

(* C34: after a call of the planner has returned, the agent's current_plan *)
(* is the plan that call returned, the fallback plan included.             *)
C34_CurrentPlanReplaced ==
    PlannerReturned =>
        agents[reqs[returned.req].user].current_plan = returned.agent.response["plan"].items

----------------------------------------------------------------------------
(* A confidence in [0,1]: a number between 0 and 100 hundredths. *)
InUnitRange(v) == v.tag = "num" /\ v.n >= 0 /\ v.n <= 100

(* C35: every value stored in the response-effectiveness table of an      *)
(* agent is a number in [0,1], whatever the generation call returned.      *)
C35_ConfidenceInRange ==
    \A u \in DOMAIN agents :
        \A k \in DOMAIN agents[u].response_effectiveness :
            \A i \in 1..Len(agents[u].response_effectiveness[k]) :
                InUnitRange(agents[u].response_effectiveness[k][i])

----------------------------------------------------------------------------
(* The step in which request r returns from its generation. *)
Completes(r) == InFlight(r) /\ reqs'[r].pc = "returned"

TableOf(registry, u) == registry[u].response_effectiveness

(* C36: when a conversational request of classified urgency u completes,  *)
(* its confidence is appended to the sequence under key u of the          *)
(* response-effectiveness table, and the sequences under the other keys    *)
(* stay as they were.                                                      *)
C36_KeyedByUrgency ==
    [][\A r \in 1..Len(reqs) :
          (Completes(r) /\ reqs[r].via = "conversation") =>
              LET u == reqs[r].user
                  key == JStr(reqs[r].urgency)
                  before == TableOf(agents, u)
                  after == TableOf(agents', u)
                  old == IF key \in DOMAIN before THEN before[key] ELSE <<>>
              IN  /\ key \in DOMAIN after
                  /\ after[key] = Append(old, Get(returned'.agent.response, "confidence",
                                                  JNum(50)))
                  /\ \A k \in DOMAIN after \ {key} :
                        k \in DOMAIN before /\ after[k] = before[k]]_vars

----------------------------------------------------------------------------
(* C39: when a request completes whose response carries a list of         *)
(* learning points, every one of them is in the agent's                    *)
(* contextual_knowledge afterwards, and so is every entry that was there   *)
(* before.                                                                 *)
C39_LearningPointsRetained ==
    [][\A r \in 1..Len(reqs) :
          Completes(r) =>
              LET u == reqs[r].user
                  points == Get(returned'.agent.response, "learning_points", JList(<<>>))
                  before == agents[u].contextual_knowledge
                  after == agents'[u].contextual_knowledge
              IN  /\ points.tag = "list" =>
                        \A i \in 1..Len(points.items) :
                            \E k \in DOMAIN after : after[k] = points.items[i]
                  /\ \A k \in DOMAIN before :
                        k \in DOMAIN after /\ after[k] = before[k]]_vars

----------------------------------------------------------------------------
(* C37: a monitoring task that is asleep after a cycle sleeps 60 seconds  *)
(* when nothing was raised inside the cycle and 30 seconds when something *)
(* was; and the loop is left only after the session was ended, never       *)
(* because of what a cycle raised.                                         *)
C37_BackOffAfterError ==
    \A m \in 1..Len(monitors) :
        /\ InLoop(m) => monitors[m].wait = IF monitors[m].error THEN 30 ELSE 60
        /\ monitors[m].pc = "exited" => monitors[m].session_ended

----------------------------------------------------------------------------
(* The monitoring entries of a table of contextual knowledge. *)
MonitoringKeys(ck) == {k \in DOMAIN ck : k.kind = "monitoring"}

(* The step in which task m runs a cycle. *)
RunsCycle(m) ==
    /\ m \in 1..Len(monitors)
    /\ monitors'[m].checks = monitors[m].checks + 1

(* C38: every cycle of a monitoring task adds one entry to the            *)
(* contextual_knowledge of its agent, which records the overall risk the   *)
(* cycle assessed (low, medium or high), and leaves every entry that was   *)
(* there as it was.                                                        *)
C38_CycleIsRemembered ==
    [][\A m \in 1..MaxMonitors :
          RunsCycle(m) =>
              LET u == monitors[m].user
                  before == agents[u].contextual_knowledge
                  after == agents'[u].contextual_knowledge
                  gained == MonitoringKeys(after) \ MonitoringKeys(before)
              IN  /\ Cardinality(gained) = 1
                  /\ \A k \in gained : after[k].s = monitors'[m].risk
                  /\ \A k \in DOMAIN before :
                        k \in DOMAIN after /\ after[k] = before[k]]_vars

(* Two cycles of high and of lower risk are both on record, next to the  *)
(* cycles of another user's task.                                          *)
C38_Witness ==
    \E u \in DOMAIN agents :
        LET ck == agents[u].contextual_knowledge
        IN  /\ \E k \in MonitoringKeys(ck) : ck[k].s = "high"
            /\ \E k \in MonitoringKeys(ck) : ck[k].s = "medium"
            /\ \E v \in DOMAIN agents \ {u} :
                    MonitoringKeys(agents[v].contextual_knowledge) # {}

----------------------------------------------------------------------------
(* A monitor_journey task that no step of its own will end: it has not    *)
(* returned, and is_monitoring is set or is about to be set by its first  *)
(* run.                                                                    *)
KeepsRunning(j) ==
    /\ journeys[j].pc # "returned"
    /\ journeys[j].is_monitoring \/ journeys[j].pc = "created"

Registered(j) ==
    /\ journeys[j].user \in DOMAIN active_agents
    /\ active_agents[journeys[j].user].journey = j

(* C40: every journey-monitoring loop that keeps running is the one the   *)
(* registry holds for its user, so there is at most one per user and      *)
(* stop_journey can reach it: none is left running once the user's        *)
(* journey has been stopped or started anew.                               *)
C40_LoopsAreRegistered ==
    \A j \in 1..Len(journeys) : KeepsRunning(j) => Registered(j)

====
